---- MODULE Spec2Model ----
(***************************************************************************)
(* A model of the expression engine of obj_tables/math/expression.py:      *)
(* ParsedExpression (tokenize and its three resolution strategies, the     *)
(* ambiguity scan, compilation) and LinearParsedExpressionValidator (the   *)
(* rewrite passes over the abstract syntax tree, the three linearity tests *)
(* and the extraction of the linear coefficients).                         *)
(*                                                                         *)
(* Python tokens are records [type, string, adj]; adj says that the token  *)
(* starts where the previous one ends (no white space in between).  Error  *)
(* messages are records [e |-> kind, ...] that keep the parts of the       *)
(* message the code formats into it.                                       *)
(***************************************************************************)
EXTENDS Integers, Sequences, FiniteSets, TLC

\* ------------------------------------------------------------------ bounds
\* longest expression, in Python tokens, drawn from the whole token alphabet
MaxLen == 3
\* largest expression tree (leaves plus unary operators and calls) drawn
\* over all the operators
MaxSize == 3
\* largest number of terms of a sum or difference of terms
MaxTerms == 4
\* the most factors of a unit in a value that is evaluated once more
MaxPower == 2
\* longest sequence of ObjModelTokens given to the validator of obj_model
MaxTokens == 5

\* ------------------------------------------------------- Python tokens
DIGIT_PREFIX == "__digit__"

\* the names whose first character is a digit
DigitNames == {"3y"}

\* ParsedExpression.__prep_expr_for_tokenization: a name that begins with a
\* digit gets the prefix, so that it lexes as one NAME
prep_expr_for_tokenization(name) ==
    IF name \in DigitNames THEN DIGIT_PREFIX \o name ELSE name

\* tok.string[9:] for the tokens that start with the prefix
strip_digit_prefix(s) ==
    IF \E n \in DigitNames : s = DIGIT_PREFIX \o n
    THEN CHOOSE n \in DigitNames : s = DIGIT_PREFIX \o n
    ELSE s

NameTok(s, a) == [type |-> "NAME", string |-> prep_expr_for_tokenization(s), adj |-> a]
NumTok(s)     == [type |-> "NUMBER", string |-> s, adj |-> FALSE]
OpTok(s, a)   == [type |-> "OP", string |-> s, adj |-> a]
BadTok(s)     == [type |-> "ERRORTOKEN", string |-> s, adj |-> FALSE]

\* token.exact_type of a Python token
exact_type(tok) ==
    IF tok.type # "OP" THEN tok.type
    ELSE CASE tok.string = "+"  -> "PLUS"
           [] tok.string = "-"  -> "MINUS"
           [] tok.string = "*"  -> "STAR"
           [] tok.string = "/"  -> "SLASH"
           [] tok.string = "**" -> "DOUBLESTAR"
           [] tok.string = "("  -> "LPAR"
           [] tok.string = ")"  -> "RPAR"
           [] tok.string = "["  -> "LSQB"
           [] tok.string = "]"  -> "RSQB"
           [] tok.string = "."  -> "DOT"
           [] tok.string = ","  -> "COMMA"
           [] tok.string = "==" -> "EQEQUAL"
           [] tok.string = ">"  -> "GREATER"
           [] tok.string = ">=" -> "GREATEREQUAL"
           [] tok.string = "<"  -> "LESS"
           [] tok.string = "<=" -> "LESSEQUAL"
           [] tok.string = "!=" -> "NOTEQUAL"
           [] OTHER             -> "OP"

LEGAL_TOKENS ==
    {"NUMBER", "NAME", "LSQB", "RSQB", "DOT", "COMMA",
     "DOUBLESTAR", "MINUS", "PLUS", "SLASH", "STAR", "LPAR", "RPAR",
     "EQEQUAL", "GREATER", "GREATEREQUAL", "LESS", "LESSEQUAL", "NOTEQUAL"}

MODEL_TYPE_DISAMBIG_PATTERN == <<"NAME", "DOT", "NAME">>
FUNC_PATTERN == <<"NAME", "LPAR">>

\* ---------------------------------------------- the schema collaborator
\* the type that owns the expression: its term types, by name, and the
\* names of its allow-listed functions
expression_term_models == {"A", "B"}
expression_valid_functions == {"f"}
\* Meta.expression_unit_registry: the owning type has a unit registry
expression_unit_registry == TRUE

\* the term types of the owning types, by name: A and B have the Meta of
\* ExpressionTermMeta, Parameter that of ExpressionStaticTermMeta and
\* SubFunction that of ExpressionExpressionTermMeta
\* hasattr(Meta, 'expression_term_model') and Meta.expression_term_model
expression_term_model(model_type) == model_type = "SubFunction"
\* hasattr(Meta, 'expression_term_value') and Meta.expression_term_value
expression_term_value(model_type) == model_type = "Parameter"

\* the instances of unit_registry.Unit
Units == {"dimensionless", "g"}

\* Meta.expression_term_token_pattern of a term type
expression_term_token_pattern(model_type) ==
    IF model_type = "C" THEN <<"NAME", "DOT", "NAME">> ELSE <<"NAME">>

\* a model instance: its type and its own primary attribute
Inst(cls, id) == [cls |-> cls, id |-> id]

\* a registry that maps every key of ids[T] to an instance of T whose
\* primary attribute is the key
Registry(ids) == [T \in DOMAIN ids |-> [k \in ids[T] |-> Inst(T, k)]]

\* the registries the caller supplies: one with the same id under two
\* types, one with ids that are also the name of a function or of a type
Registries ==
    { Registry([A |-> {"x", "3y"}, B |-> {"x"}]),
      Registry([A |-> {"x", "f"}, B |-> {"A"}]) }

PlainRegistry == Registry([A |-> {"x", "3y"}, B |-> {}])

\* self._objs.get(model_type, {})
objs_get(objs, model_type) ==
    IF model_type \in DOMAIN objs THEN objs[model_type] ELSE [k \in {} |-> 0]

\* --------------------------------------------- abstract syntax trees
\* the nodes of Python's ast that the whitelisted tokens can produce
Num(n)            == [k |-> "Num", n |-> n]
Name(id)          == [k |-> "Name", id |-> id]
UnaryOp(op, e)    == [k |-> "UnaryOp", op |-> op, operand |-> e]
BinOp(l, op, r)   == [k |-> "BinOp", op |-> op, left |-> l, right |-> r]
Compare(l, ops, cs) == [k |-> "Compare", left |-> l, ops |-> ops, comparators |-> cs]
Call(f, args)     == [k |-> "Call", func |-> f, args |-> args]
Starred(e)        == [k |-> "Starred", value |-> e]
Attribute(v, a)   == [k |-> "Attribute", value |-> v, attr |-> a]
Subscript(v, key) == [k |-> "Subscript", value |-> v, slice |-> key]
EmptyTuple        == [k |-> "Tuple"]

\* ------------------------------------- Python's parser (compile, ast.parse)
\* The text handed to Python is a list of lexemes joined by single spaces:
\* [cat |-> "NAME" | "NUMBER" | "OP", s |-> text], or, for the reference
\* expression Type["id"] that _obj_tables_token_to_str writes,
\* [cat |-> "REF", s |-> id, typ |-> Type].
Lexeme(cat, s) == [cat |-> cat, s |-> s]
RefLexeme(typ, id) == [cat |-> "REF", s |-> id, typ |-> typ]

\* the value of a numeric literal
NumVal(s) == CASE s = "2" -> 2 [] s = "3" -> 3 [] OTHER -> 0

\* ast.parse(text, mode='eval') and compile(text, ..., 'eval'): the tree of
\* the whole text, or a SyntaxError (ok = FALSE). Each rule of the grammar
\* hands what it has parsed (a, b, e, f, p: a tree and the index after it)
\* to the definition that continues it.
PyParse(text) ==
    LET
        IsOp(L, i, s) == i <= Len(L) /\ L[i].cat = "OP" /\ L[i].s = s
        IsOpIn(L, i, S) == i <= Len(L) /\ L[i].cat = "OP" /\ L[i].s \in S

        CompareOps == {"==", ">", ">=", "<", "<=", "!="}
        BinOpName(s) ==
            CASE s = "+" -> "Add" [] s = "-" -> "Sub" [] s = "*" -> "Mult"
              [] s = "/" -> "Div" [] s = "**" -> "Pow" [] OTHER -> "Other"
        UnaryOpName(s) == IF s = "-" THEN "USub" ELSE "UAdd"
        CompareOpName(s) ==
            CASE s = "==" -> "Eq" [] s = ">" -> "Gt" [] s = ">=" -> "GtE"
              [] s = "<" -> "Lt" [] s = "<=" -> "LtE" [] OTHER -> "NotEq"

        ParseOk(t, i) == [ok |-> TRUE, t |-> t, i |-> i]
        ParseFail == [ok |-> FALSE, t |-> EmptyTuple, i |-> 0]

        RECURSIVE ParseComparison(_, _)
        RECURSIVE ParseCompRest(_, _, _, _, _)
        RECURSIVE ParseArith(_, _)
        RECURSIVE ParseArithRest(_, _, _)
        RECURSIVE ParseTerm(_, _)
        RECURSIVE ParseTermRest(_, _, _)
        RECURSIVE ParseFactor(_, _)
        RECURSIVE ParsePower(_, _)
        RECURSIVE ParseTrailers(_, _, _)
        RECURSIVE ParseAtom(_, _)

        \* Each rule hands what it has parsed (a, b, e, f, p: a tree and the index
        \* after it) to the definition that continues it.

        \* comparison: arith (compare_op arith)*; a chain is one Compare node
        ParseCompFirst(L, a) ==
            IF ~a.ok THEN ParseFail ELSE ParseCompRest(L, a.i, a.t, <<>>, <<>>)

        ParseComparison(L, i) == ParseCompFirst(L, ParseArith(L, i))

        ParseCompNext(L, i, left, ops, cs, b) ==
            IF ~b.ok THEN ParseFail
            ELSE ParseCompRest(L, b.i, left, Append(ops, CompareOpName(L[i].s)), Append(cs, b.t))

        ParseCompRest(L, i, left, ops, cs) ==
            IF IsOpIn(L, i, CompareOps)
            THEN ParseCompNext(L, i, left, ops, cs, ParseArith(L, i + 1))
            ELSE ParseOk(IF cs = <<>> THEN left ELSE Compare(left, ops, cs), i)

        \* arith: term (('+' | '-') term)*, left associative
        ParseArithFirst(L, a) == IF ~a.ok THEN ParseFail ELSE ParseArithRest(L, a.i, a.t)

        ParseArith(L, i) == ParseArithFirst(L, ParseTerm(L, i))

        ParseArithNext(L, i, left, b) ==
            IF ~b.ok THEN ParseFail
            ELSE ParseArithRest(L, b.i, BinOp(left, BinOpName(L[i].s), b.t))

        ParseArithRest(L, i, left) ==
            IF IsOpIn(L, i, {"+", "-"})
            THEN ParseArithNext(L, i, left, ParseTerm(L, i + 1))
            ELSE ParseOk(left, i)

        \* term: factor (('*' | '/') factor)*, left associative
        ParseTermFirst(L, a) == IF ~a.ok THEN ParseFail ELSE ParseTermRest(L, a.i, a.t)

        ParseTerm(L, i) == ParseTermFirst(L, ParseFactor(L, i))

        ParseTermNext(L, i, left, b) ==
            IF ~b.ok THEN ParseFail
            ELSE ParseTermRest(L, b.i, BinOp(left, BinOpName(L[i].s), b.t))

        ParseTermRest(L, i, left) ==
            IF IsOpIn(L, i, {"*", "/"})
            THEN ParseTermNext(L, i, left, ParseFactor(L, i + 1))
            ELSE ParseOk(left, i)

        \* factor: ('+' | '-') factor | power
        ParseUnary(s, f) ==
            IF ~f.ok THEN ParseFail ELSE ParseOk(UnaryOp(UnaryOpName(s), f.t), f.i)

        ParseFactor(L, i) ==
            IF IsOpIn(L, i, {"+", "-"})
            THEN ParseUnary(L[i].s, ParseFactor(L, i + 1))
            ELSE ParsePower(L, i)

        \* power: primary ['**' factor]; primary: atom trailer*
        ParsePrimary(L, a) == IF ~a.ok THEN ParseFail ELSE ParseTrailers(L, a.i, a.t)

        ParseExponent(p, f) ==
            IF ~f.ok THEN ParseFail ELSE ParseOk(BinOp(p.t, "Pow", f.t), f.i)

        ParsePowerOf(L, p) ==
            IF ~p.ok THEN ParseFail
            ELSE IF IsOp(L, p.i, "**") THEN ParseExponent(p, ParseFactor(L, p.i + 1))
            ELSE p

        ParsePower(L, i) == ParsePowerOf(L, ParsePrimary(L, ParseAtom(L, i)))

        \* trailer: '(' [argument] ')' | '.' NAME; without a comma a call has at
        \* most one argument, which may be starred ('*' or '**')
        ParseCall(L, t, star, e) ==
            IF e.ok /\ IsOp(L, e.i, ")")
            THEN ParseTrailers(L, e.i + 1, Call(t, <<IF star THEN Starred(e.t) ELSE e.t>>))
            ELSE ParseFail

        ParseTrailers(L, i, t) ==
            IF IsOp(L, i, "(")
            THEN IF IsOp(L, i + 1, ")")
                 THEN ParseTrailers(L, i + 2, Call(t, <<>>))
                 ELSE ParseCall(L, t, IsOpIn(L, i + 1, {"*", "**"}),
                                ParseComparison(L, IF IsOpIn(L, i + 1, {"*", "**"})
                                                   THEN i + 2 ELSE i + 1))
            ELSE IF IsOp(L, i, ".")
            THEN IF i + 1 <= Len(L) /\ L[i + 1].cat = "NAME"
                 THEN ParseTrailers(L, i + 2, Attribute(t, L[i + 1].s))
                 ELSE IF i + 1 <= Len(L) /\ L[i + 1].cat = "REF"
                 THEN ParseTrailers(L, i + 2, Subscript(Attribute(t, L[i + 1].typ), L[i + 1].s))
                 ELSE ParseFail
            ELSE ParseOk(t, i)

        \* atom: NAME | NUMBER | Type["id"] | '(' ')' | '(' expression ')'
        ParseParenthesized(L, e) ==
            IF e.ok /\ IsOp(L, e.i, ")") THEN ParseOk(e.t, e.i + 1) ELSE ParseFail

        ParseAtom(L, i) ==
            IF i > Len(L) THEN ParseFail
            ELSE IF L[i].cat = "NAME" THEN ParseOk(Name(L[i].s), i + 1)
            ELSE IF L[i].cat = "NUMBER" THEN ParseOk(Num(NumVal(L[i].s)), i + 1)
            ELSE IF L[i].cat = "REF" THEN ParseOk(Subscript(Name(L[i].typ), L[i].s), i + 1)
            ELSE IF IsOp(L, i, "(")
            THEN IF IsOp(L, i + 1, ")") THEN ParseOk(EmptyTuple, i + 2)
                 ELSE ParseParenthesized(L, ParseComparison(L, i + 1))
            ELSE ParseFail
        ParseWhole(r) == IF r.ok /\ r.i = Len(text) + 1 THEN r ELSE ParseFail
    IN  ParseWhole(ParseComparison(text, 1))


\* ------------------------------------------------- ParsedExpression
None == "None"
NoneInst == [cls |-> None, id |-> None]
\* a value that may be None
Some(v) == [none |-> FALSE, v |-> v]
NoneVal == [none |-> TRUE]
\* an empty dict
EmptyDict == [k \in {} |-> None]

\* str.casefold of the names of the model
casefold(s) ==
    CASE s = "A" -> "a" [] s = "B" -> "b" [] s = "Y" -> "y"
      [] s = "Parameter" -> "parameter" [] s = "SubFunction" -> "subfunction"
      [] s = "A.x" -> "a.x" [] s = "A.A" -> "a.a" [] s = "x.A" -> "x.a"
      [] s = "Q" -> "q"
      [] OTHER -> s

\* ObjTablesToken(code, token_string, model_type=None, model_id=None, model=None)
ObjTablesToken(code, token_string, model_type, model_id, model) ==
    [code |-> code, token_string |-> token_string, model_type |-> model_type,
     model_id |-> model_id, model |-> model]
PlainToken(code, token_string) ==
    ObjTablesToken(code, token_string, None, None, NoneInst)

\* what a resolution strategy returns: None, an error str or a LexMatch
ResultNone == [kind |-> "None"]
ResultError(err) == [kind |-> "str", error |-> err]
LexMatch(obj_tables_tokens, num_py_tokens) ==
    [kind |-> "LexMatch", obj_tables_tokens |-> obj_tables_tokens,
     num_py_tokens |-> num_py_tokens]

\* a reset that keeps what the previous tokenization compiled
reset_tokenization_keeps_compiled(self) ==
    [self EXCEPT
        !.related_objects = [T \in self.term_models |-> [k \in {} |-> NoneInst]],
        !.lin_coeffs = [T \in self.term_models |-> [m \in {} |-> 0]],
        !.errors = <<>>,
        !.obj_tables_tokens = <<>>]

\* a reset that forgets to clear the errors of the previous tokenization
reset_tokenization_keeps_errors(self) ==
    [self EXCEPT
        !.related_objects = [T \in self.term_models |-> [k \in {} |-> NoneInst]],
        !.lin_coeffs = [T \in self.term_models |-> [m \in {} |-> 0]],
        !.obj_tables_tokens = <<>>,
        !.compiled_expression = NoneVal,
        !.compiled_expression_with_units = NoneVal,
        !.compiled_namespace = EmptyDict,
        !.compiled_namespace_with_units = EmptyDict]

\* ParsedExpression.__reset_tokenization: self with its derived state emptied
reset_tokenization(self) ==
    [self EXCEPT
        !.related_objects = [T \in self.term_models |-> [k \in {} |-> NoneInst]],
        !.lin_coeffs = [T \in self.term_models |-> [m \in {} |-> 0]],
        !.errors = <<>>,
        !.obj_tables_tokens = <<>>,
        !.compiled_expression = NoneVal,
        !.compiled_expression_with_units = NoneVal,
        !.compiled_namespace = EmptyDict,
        !.compiled_namespace_with_units = EmptyDict]

\* ParsedExpression._get_model_type; None if no term type has that name
get_model_type(term_models, name) ==
    IF name \in term_models THEN name ELSE None

RECURSIVE ConcatMatch(_, _, _)
\* the text of the n tokens from idx on, without the digit prefix
ConcatMatch(py_tokens, idx, n) ==
    IF n = 0 THEN ""
    ELSE LET tok == py_tokens[idx]
         IN  (IF tok.type = "NAME" THEN strip_digit_prefix(tok.string) ELSE tok.string)
             \o ConcatMatch(py_tokens, idx + 1, n - 1)

\* ParsedExpression._match_tokens: m is FALSE if the tokens from idx on do
\* not match the pattern, else val is the matched text
match_tokens(py_tokens, token_pattern, idx) ==
    IF token_pattern = <<>> \/ Len(py_tokens) - (idx - 1) < Len(token_pattern)
    THEN [m |-> FALSE, val |-> ""]
    ELSE IF \E j \in 1..Len(token_pattern) :
                \/ exact_type(py_tokens[idx + j - 1]) # token_pattern[j]
                \/ (1 < j /\ ~py_tokens[idx + j - 1].adj)
         THEN [m |-> FALSE, val |-> ""]
         ELSE [m |-> TRUE, val |-> ConcatMatch(py_tokens, idx, Len(token_pattern))]

\* a type-qualified strategy that does not check that the id is in the
\* registry of the type, and looks the instance up with dict.get
get_disambiguated_id_unchecked(py_tokens, term_models, objs, idx, case_fold_match) ==
    LET disambig_model_match == match_tokens(py_tokens, MODEL_TYPE_DISAMBIG_PATTERN, idx)
    IN  IF ~disambig_model_match.m THEN ResultNone
        ELSE
        LET disambig_model_type == py_tokens[idx].string
            tok_string == py_tokens[idx + 2].string
            possible_model_id == IF case_fold_match THEN casefold(tok_string) ELSE tok_string
            model_type == get_model_type(term_models, disambig_model_type)
        IN  IF model_type = None
            THEN ResultError([e |-> "type cannot be referenced",
                              text |-> disambig_model_match.val,
                              type |-> disambig_model_type])
            ELSE LexMatch(<<ObjTablesToken("obj_id", disambig_model_match.val, model_type,
                                           possible_model_id,
                                           IF possible_model_id \in DOMAIN objs_get(objs, model_type)
                                           THEN objs[model_type][possible_model_id]
                                           ELSE NoneInst)>>,
                          Len(MODEL_TYPE_DISAMBIG_PATTERN))

\* ParsedExpression._get_disambiguated_id
get_disambiguated_id(py_tokens, term_models, objs, idx, case_fold_match) ==
    LET disambig_model_match == match_tokens(py_tokens, MODEL_TYPE_DISAMBIG_PATTERN, idx)
    IN  IF ~disambig_model_match.m THEN ResultNone
        ELSE
        LET disambig_model_type == py_tokens[idx].string
            tok_string == py_tokens[idx + 2].string
            possible_model_id == IF case_fold_match THEN casefold(tok_string) ELSE tok_string
            model_type == get_model_type(term_models, disambig_model_type)
        IN  IF model_type = None
            THEN ResultError([e |-> "type cannot be referenced",
                              text |-> disambig_model_match.val,
                              type |-> disambig_model_type])
            ELSE IF possible_model_id \notin DOMAIN objs_get(objs, model_type)
            THEN ResultError([e |-> "is not the id of a",
                              text |-> disambig_model_match.val,
                              id |-> possible_model_id, type |-> disambig_model_type])
            ELSE LexMatch(<<ObjTablesToken("obj_id", disambig_model_match.val, model_type,
                                           possible_model_id,
                                           objs[model_type][possible_model_id])>>,
                          Len(MODEL_TYPE_DISAMBIG_PATTERN))

\* a choice of one of the id matches, whatever their number
any_id_match(all_id_matches) ==
    IF all_id_matches = {} THEN {} ELSE {CHOOSE im \in all_id_matches : TRUE}

\* _get_related_obj_id, "as lexers always do, pick the longest match": the
\* id matches of maximal length if there are several id matches
longest_id_matches(all_id_matches) ==
    LET longest_length ==
            CHOOSE n \in {Len(im.match_string) : im \in all_id_matches} :
                \A im \in all_id_matches : Len(im.match_string) <= n
    IN  IF 1 < Cardinality(all_id_matches)
        THEN {im \in all_id_matches : Len(im.match_string) = longest_length}
        ELSE all_id_matches

\* ParsedExpression._get_related_obj_id
get_related_obj_id(py_tokens, term_models, objs, idx, case_fold_match) ==
    LET IdMatch(model_type, token_pattern, match_string) ==
            [model_type |-> model_type, token_pattern |-> token_pattern,
             match_string |-> match_string]
    IN  LET match_string(T) == match_tokens(py_tokens, expression_term_token_pattern(T), idx)
            token_matches == {match_string(T).val : T \in {U \in term_models : match_string(U).m}}
            all_id_matches ==
                {IdMatch(T, expression_term_token_pattern(T), match_string(T).val) :
                    T \in {U \in term_models :
                            /\ match_string(U).m
                            /\ (IF case_fold_match THEN casefold(match_string(U).val)
                                ELSE match_string(U).val) \in DOMAIN objs_get(objs, U)}}
            id_matches == longest_id_matches(all_id_matches)
        IN  IF all_id_matches = {}
            THEN IF token_matches # {}
                 THEN ResultError([e |-> "aren't the id(s) of an object", ids |-> token_matches])
                 ELSE ResultNone
            ELSE IF 1 < Cardinality(id_matches)
            THEN ResultError([e |-> "multiple model object id matches",
                              matches |-> {<<im.match_string, im.model_type>> : im \in id_matches}])
            ELSE LET match == CHOOSE im \in id_matches : TRUE
                     right_case_match_string ==
                         IF case_fold_match THEN casefold(match.match_string)
                         ELSE match.match_string
                 IN  LexMatch(<<ObjTablesToken("obj_id", match.match_string, match.model_type,
                                               right_case_match_string,
                                               objs[match.model_type][right_case_match_string])>>,
                              Len(match.token_pattern))

\* a function-call strategy that takes any name for the name of a function
get_func_call_id_of_any_name(py_tokens, idx) ==
    IF ~match_tokens(py_tokens, FUNC_PATTERN, idx).m THEN ResultNone
    ELSE LexMatch(<<PlainToken("math_func_id", py_tokens[idx].string), PlainToken("op", "(")>>,
                  Len(FUNC_PATTERN))

\* ParsedExpression._get_func_call_id
get_func_call_id(py_tokens, idx) ==
    LET func_match == match_tokens(py_tokens, FUNC_PATTERN, idx)
        func_name == py_tokens[idx].string
        function_ids == expression_valid_functions
    IN  IF ~func_match.m THEN ResultNone
        ELSE IF func_name \notin function_ids
        THEN ResultError([e |-> "func name isn't in expression_valid_functions",
                          name |-> func_name, allowed |-> function_ids])
        ELSE LexMatch(<<PlainToken("math_func_id", func_name), PlainToken("op", "(")>>,
                      Len(FUNC_PATTERN))

\* f with f[k] = v, the other keys as in f
Put(f, k, v) == [x \in (DOMAIN f) \cup {k} |-> IF x = k THEN v ELSE f[x]]

RECURSIVE record_related_objects_by_text(_, _)
\* a loop that keys the instance by the text of the token, not by its id
record_related_objects_by_text(related_objects, obj_tables_tokens) ==
    IF obj_tables_tokens = <<>> THEN related_objects
    ELSE LET tk == Head(obj_tables_tokens)
             ro == IF tk.code = "obj_id"
                   THEN [related_objects EXCEPT
                            ![tk.model_type] = Put(@, tk.token_string, tk.model)]
                   ELSE related_objects
         IN  record_related_objects_by_text(ro, Tail(obj_tables_tokens))

RECURSIVE record_related_objects(_, _)
\* tokenize, the loop over the tokens of a match:
\* related_objects[model_type][model_id] = model for every obj_id token
record_related_objects(related_objects, obj_tables_tokens) ==
    IF obj_tables_tokens = <<>> THEN related_objects
    ELSE LET tk == Head(obj_tables_tokens)
             ro == IF tk.code = "obj_id"
                   THEN [related_objects EXCEPT
                            ![tk.model_type] = Put(@, tk.model_id, tk.model)]
                   ELSE related_objects
         IN  record_related_objects(ro, Tail(obj_tables_tokens))

\* the smallest num_py_tokens of a non-empty list of matches
ShortestLength(matches) ==
    CHOOSE n \in {matches[j].num_py_tokens : j \in DOMAIN matches} :
        \A j \in DOMAIN matches : n <= matches[j].num_py_tokens

\* the largest num_py_tokens of a non-empty list of matches
LongestLength(matches) ==
    CHOOSE n \in {matches[j].num_py_tokens : j \in DOMAIN matches} :
        \A j \in DOMAIN matches : matches[j].num_py_tokens <= n

RECURSIVE tokenize_loop(_, _, _, _, _, _)
RECURSIVE tokenize_name(_, _, _, _, _, _, _)
\* tokenize, the while loop from Python token idx on; st holds
\* _obj_tables_tokens, related_objects, errors and the exception raised, if any
tokenize_loop(py_tokens, term_models, objs, case_fold_match, idx, st) ==
    IF idx > Len(py_tokens) THEN st
    ELSE
    LET tok == py_tokens[idx]
        obj_tables_token_code ==
            IF tok.type = "OP" THEN "op"
            ELSE IF tok.type = "NUMBER" THEN "number" ELSE "other"
    IN  IF tok.type # "NAME"
        THEN tokenize_loop(py_tokens, term_models, objs, case_fold_match, idx + 1,
                 [st EXCEPT !.obj_tables_tokens =
                     Append(@, PlainToken(obj_tables_token_code, tok.string))])
        ELSE tokenize_name(py_tokens, term_models, objs, case_fold_match, idx, st,
                 << get_related_obj_id(py_tokens, term_models, objs, idx, case_fold_match),
                    get_disambiguated_id(py_tokens, term_models, objs, idx, case_fold_match),
                    get_func_call_id(py_tokens, idx) >>)

\* tokenize, the body of the while loop for the identifier at idx, results
\* being what the three strategies returned for it
tokenize_name(py_tokens, term_models, objs, case_fold_match, idx, st, results) ==
        LET IsError(r) == r.kind = "str"
            IsMatch(r) == r.kind = "LexMatch"
            error_results == SelectSeq(results, IsError)
            tmp_errors == [j \in DOMAIN error_results |-> error_results[j].error]
            matches == SelectSeq(results, IsMatch)
            IsLongest(m) == m.num_py_tokens = LongestLength(matches)
            longest_matches == SelectSeq(matches, IsLongest)
            match == longest_matches[1]
        IN  IF matches = <<>> /\ tmp_errors = <<>>
            THEN [st EXCEPT !.raised = "No matches or errors found"]
            ELSE IF tmp_errors # <<>> /\ matches = <<>>
            THEN [st EXCEPT !.errors = tmp_errors]
            ELSE IF Len(longest_matches) > 1
            THEN [st EXCEPT !.raised = "Multiple longest matches"]
            ELSE tokenize_loop(py_tokens, term_models, objs, case_fold_match,
                     idx + match.num_py_tokens,
                     [st EXCEPT
                        !.obj_tables_tokens = @ \o match.obj_tables_tokens,
                        !.related_objects =
                            record_related_objects(@, match.obj_tables_tokens)])

\* a scan that looks at the references only, not at the names of functions
detect_ambiguous_references(obj_tables_tokens, term_models, objs) ==
    LET matching_items(tk) ==
            {T \in term_models : tk.token_string \in DOMAIN objs_get(objs, T)}
            \cup (IF tk.token_string \in expression_valid_functions THEN {"function"} ELSE {})
        IsAmbiguous(tk) == tk.code = "obj_id" /\ Cardinality(matching_items(tk)) > 1
        ambiguous == SelectSeq(obj_tables_tokens, IsAmbiguous)
    IN  [j \in DOMAIN ambiguous |->
            [e |-> "is ambiguous", token |-> ambiguous[j].token_string,
             matches |-> matching_items(ambiguous[j])]]

\* tokenize, the scan for ambiguous tokens: the errors of the tokens whose
\* text is an id of a term type and also an id of another or a function
detect_ambiguous_tokens(obj_tables_tokens, term_models, objs) ==
    LET valid_function_names == expression_valid_functions
        matching_items(tk) ==
            {T \in term_models : tk.token_string \in DOMAIN objs_get(objs, T)}
            \cup (IF tk.token_string \in valid_function_names THEN {"function"} ELSE {})
        IsAmbiguous(tk) ==
            /\ tk.code \in {"obj_id", "math_func_id"}
            /\ Cardinality(matching_items(tk)) > 1
        ambiguous == SelectSeq(obj_tables_tokens, IsAmbiguous)
    IN  [j \in DOMAIN ambiguous |->
            [e |-> "is ambiguous", token |-> ambiguous[j].token_string,
             matches |-> matching_items(ambiguous[j])]]

\* ParsedExpression._obj_tables_token_to_str: Type["primary attribute"]
obj_tables_token_to_str(tk) == RefLexeme(tk.model_type, tk.model.id)

RECURSIVE get_str(_, _)
\* ParsedExpression.get_str with _obj_tables_token_to_str: the text that is
\* compiled, as the list of its lexemes
get_str(obj_tables_tokens, with_units) ==
    IF obj_tables_tokens = <<>> THEN <<>>
    ELSE LET tk == Head(obj_tables_tokens)
             val == IF tk.code = "obj_id" THEN <<obj_tables_token_to_str(tk)>>
                    ELSE IF tk.code = "number"
                    THEN IF with_units
                         THEN <<Lexeme("NUMBER", tk.token_string), Lexeme("OP", "*"),
                                Lexeme("NAME", "__dimensionless__")>>
                         ELSE <<Lexeme("NUMBER", tk.token_string)>>
                    ELSE IF tk.code = "math_func_id"
                    THEN <<Lexeme("NAME", tk.token_string)>>
                    ELSE <<Lexeme("OP", tk.token_string)>>
         IN  val \o get_str(Tail(obj_tables_tokens), with_units)

\* compile(str_expression, '<ParsedExpression>', 'eval'): the code object,
\* kept as the tree it evaluates, or a SyntaxError (ok = FALSE)
compile(obj_tables_tokens, with_units) ==
    PyParse(get_str(obj_tables_tokens, with_units))

\* ParsedExpression._compile, the compiled name space: each allow-listed
\* function by its name and, with units, __dimensionless__
compiled_namespace(with_units) ==
    LET \* the entry __dimensionless__ of the name space with units
        Dimensionless == [n |-> 1, d |-> 1, units |-> "dimensionless"]
    IN  LET \* the entry of a name space for an allow-listed function
            Function(name) == [func |-> name]
        IN  [name \in expression_valid_functions
                      \cup (IF with_units /\ expression_unit_registry
                            THEN {"__dimensionless__"} ELSE {}) |->
                IF name = "__dimensionless__" THEN Dimensionless ELSE Function(name)]

\* what tokenize hands back: (tokens, related objects, errors), each of
\* them possibly None, or the exception it raised
Returned(tokens, related, errors) ==
    [raised |-> None, tokens |-> tokens, related_objects |-> related, errors |-> errors]
Raised(exc) ==
    [raised |-> exc, tokens |-> [none |-> TRUE], related_objects |-> [none |-> TRUE],
     errors |-> [none |-> TRUE]]

\* a report that names the first bad token only
first_bad_token(py_tokens) ==
    LET bad == {i \in DOMAIN py_tokens : exact_type(py_tokens[i]) \notin LEGAL_TOKENS}
    IN  {(IF py_tokens[j].string \notin {"", " "} THEN py_tokens[j].string
          ELSE py_tokens[j].type) : j \in {i \in bad : \A k \in bad : i <= k}}

\* the tokens named in a 'contains bad token(s)' error
bad_tokens(py_tokens) ==
    {(IF py_tokens[j].string \notin {"", " "} THEN py_tokens[j].string
      ELSE py_tokens[j].type) :
        j \in {i \in DOMAIN py_tokens : exact_type(py_tokens[i]) \notin LEGAL_TOKENS}}

\* ParsedExpression.tokenize on the instance self: the instance as the call
\* leaves it (self) and what the call returns (ret). Each part of the method
\* hands what it computed to the part that follows it.
tokenize(self, case_fold_match) ==
    LET
        \* tokenize, a return of (None, None, self.errors)
        tokenize_fail(inst) ==
            [self |-> inst, ret |-> Returned(NoneVal, NoneVal, Some(inst.errors))]

        \* tokenize, after the calls of _compile, which gave the code objects
        \* compiled and with_units
        tokenize_compiled(scanned, compiled, with_units) ==
            IF ~compiled.ok
            THEN [self |-> scanned,
                  ret |-> Returned(NoneVal, NoneVal, Some(<<[e |-> "SyntaxError"]>>))]
            ELSE [self |-> [scanned EXCEPT
                              !.compiled_expression = Some(compiled.t),
                              !.compiled_namespace = compiled_namespace(FALSE),
                              !.compiled_expression_with_units =
                                  IF with_units.ok THEN Some(with_units.t) ELSE NoneVal,
                              !.compiled_namespace_with_units = compiled_namespace(TRUE)],
                  ret |-> Returned(Some(scanned.obj_tables_tokens),
                                   Some(scanned.related_objects), NoneVal)]

        \* tokenize, from the call of _compile on: scanned is the instance after
        \* the scan for ambiguous tokens
        tokenize_compile(scanned) ==
            IF scanned.errors # <<>>
            THEN tokenize_fail(scanned)
            ELSE tokenize_compiled(scanned, compile(scanned.obj_tables_tokens, FALSE),
                                   compile(scanned.obj_tables_tokens, TRUE))

        \* tokenize, after the while loop: looped is the instance as the loop left
        \* it and raised the exception the loop raised, if any
        tokenize_scan(looped, raised) ==
            IF raised # None
            THEN [self |-> looped, ret |-> Raised(raised)]
            ELSE tokenize_compile(
                     [looped EXCEPT !.errors =
                         @ \o detect_ambiguous_tokens(looped.obj_tables_tokens,
                                                      looped.term_models, looped.objs)])

        \* tokenize, after the while loop, which left st
        tokenize_looped(reset, st) ==
            tokenize_scan([reset EXCEPT !.obj_tables_tokens = st.obj_tables_tokens,
                                        !.related_objects = st.related_objects,
                                        !.errors = st.errors],
                          st.raised)

        \* tokenize, after the call of __reset_tokenization, which left reset
        tokenize_reset(reset) ==
            IF reset.py_tokens = <<>>
            THEN tokenize_fail([reset EXCEPT !.errors = Append(@, [e |-> "Expression cannot be empty"])])
            ELSE IF bad_tokens(reset.py_tokens) # {}
            THEN tokenize_fail([reset EXCEPT !.errors =
                                  Append(@, [e |-> "contains bad token(s)",
                                             tokens |-> bad_tokens(reset.py_tokens)])])
            ELSE tokenize_looped(reset,
                     tokenize_loop(reset.py_tokens, reset.term_models, reset.objs,
                         case_fold_match, 1,
                         [obj_tables_tokens |-> reset.obj_tables_tokens,
                          related_objects |-> reset.related_objects,
                          errors |-> reset.errors,
                          raised |-> None]))
    IN  tokenize_reset(reset_tokenization(self))

\* ------------------------------------------------------------- eval
\* The values of an evaluation. A number is a rational n/d in lowest terms
\* (for a quotient Python has the nearest float) and a bool is the int it
\* equals; units is None, or the units of a pint Quantity.
Scalar(n) == [n |-> n, d |-> 1, units |-> None]

\* the power of g in the units of a value
UnitPower(units) ==
    CASE units = "g" -> 1 [] units = "g ** 2" -> 2 [] units = "g ** 3" -> 3
      [] units = "g ** 4" -> 4 [] units = "g ** 5" -> 5 [] OTHER -> 0

\* quantity * unit_registry.parse_expression(str(units)) for the units of the
\* registry: the units of the product, units being None for a number that
\* is no Quantity
UnitsProduct(units, factor) ==
    IF UnitPower(units) + UnitPower(factor) = 0 THEN factor
    ELSE CHOOSE u \in {"g", "g ** 2", "g ** 3", "g ** 4", "g ** 5"} :
             UnitPower(u) = UnitPower(units) + UnitPower(factor)

\* a dict of values by id, and collections.defaultdict(constant_factory(value))
Dict(items) == [default |-> NoneVal, items |-> items]
DefaultDict(value) == [default |-> Some(value), items |-> EmptyDict]
SetItem(dict, key, value) == [dict EXCEPT !.items = Put(@, key, value)]

\* what evaluating Python code gives: a value or an exception
Value(v) == [exc |-> None, v |-> v]
Throws(exc) == [exc |-> exc, v |-> None]

\* dict[key]
GetItem(dict, key) ==
    IF key \in DOMAIN dict.items THEN Value(dict.items[key])
    ELSE IF ~dict.default.none THEN Value(dict.default.v)
    ELSE Throws("KeyError")

\* eval(expression, {}, namespace) for the code of an arithmetic expression
\* or of one comparison. Numbers are reduced to lowest terms; the operands
\* of an operator are evaluated from left to right; the allow-listed
\* function f returns its argument.
py_eval(node, namespace) ==
    LET
        RECURSIVE Gcd(_, _)
        RECURSIVE Eval(_, _)
        Abs(a) == IF a < 0 THEN -a ELSE a

        Gcd(a, b) == IF b = 0 THEN a ELSE Gcd(b, a % b)

        Reduced(n, d, g, units) == [n |-> n \div g, d |-> d \div g, units |-> units]
        Number(n, d, units) ==
            Reduced(IF d < 0 THEN -n ELSE n, Abs(d), Gcd(Abs(n), Abs(d)), units)

        IsNumber(v) == "n" \in DOMAIN v
        IsDict(v) == "items" \in DOMAIN v
        IsFunction(v) == "func" \in DOMAIN v

        \* the units of the result of an operation on a and b
        UnitsOf(a, b) == IF a.units # None THEN a.units ELSE b.units

        \* a op b for the arithmetic operators
        Arith(op, a, b) ==
            IF ~IsNumber(a) \/ ~IsNumber(b) THEN Throws("TypeError")
            ELSE CASE op = "Add" -> Value(Number(a.n * b.d + b.n * a.d, a.d * b.d, UnitsOf(a, b)))
                   [] op = "Sub" -> Value(Number(a.n * b.d - b.n * a.d, a.d * b.d, UnitsOf(a, b)))
                   [] op = "Mult" -> Value(Number(a.n * b.n, a.d * b.d, UnitsOf(a, b)))
                   [] op = "Div" -> IF b.n = 0 THEN Throws("ZeroDivisionError")
                                    ELSE Value(Number(a.n * b.d, a.d * b.n, UnitsOf(a, b)))

        \* a op b for the comparison operators
        Comparison(op, a, b) ==
            IF ~IsNumber(a) \/ ~IsNumber(b) THEN Throws("TypeError")
            ELSE Value(Scalar(
                IF CASE op = "Eq" -> a.n * b.d = b.n * a.d
                     [] op = "NotEq" -> a.n * b.d # b.n * a.d
                     [] op = "Lt" -> a.n * b.d < b.n * a.d
                     [] op = "LtE" -> a.n * b.d <= b.n * a.d
                     [] op = "Gt" -> a.n * b.d > b.n * a.d
                     [] op = "GtE" -> a.n * b.d >= b.n * a.d
                THEN 1 ELSE 0))

        \* the operands l and r are evaluated from left to right
        py_binop(op, l, r) ==
            IF l.exc # None THEN l ELSE IF r.exc # None THEN r ELSE Arith(op, l.v, r.v)
        py_compare(op, l, r) ==
            IF l.exc # None THEN l ELSE IF r.exc # None THEN r ELSE Comparison(op, l.v, r.v)
        py_unaryop(op, e) ==
            IF e.exc # None THEN e
            ELSE IF ~IsNumber(e.v) THEN Throws("TypeError")
            ELSE Value(IF op = "USub" THEN Number(-e.v.n, e.v.d, e.v.units) ELSE e.v)
        py_subscript(container, key) ==
            IF container.exc # None THEN container
            ELSE IF ~IsDict(container.v) THEN Throws("TypeError")
            ELSE GetItem(container.v, key)
        \* the allow-listed function f returns its argument
        py_call(func, args) ==
            IF func.exc # None THEN func
            ELSE IF Len(args) = 1 /\ args[1].exc # None THEN args[1]
            ELSE IF ~IsFunction(func.v) \/ Len(args) # 1 THEN Throws("TypeError")
            ELSE args[1]

        Eval(nd, ns) ==
            CASE nd.k = "Num" -> Value(Scalar(nd.n))
              [] nd.k = "Name" ->
                    IF nd.id \in DOMAIN ns THEN Value(ns[nd.id])
                    ELSE Throws("NameError")
              [] nd.k = "Subscript" -> py_subscript(Eval(nd.value, ns), nd.slice)
              [] nd.k = "UnaryOp" -> py_unaryop(nd.op, Eval(nd.operand, ns))
              [] nd.k = "BinOp" /\ nd.op # "Pow" ->
                    py_binop(nd.op, Eval(nd.left, ns), Eval(nd.right, ns))
              [] nd.k = "Compare" /\ Len(nd.ops) = 1 ->
                    py_compare(nd.ops[1], Eval(nd.left, ns),
                               Eval(nd.comparators[1], ns))
              [] nd.k = "Call" ->
                    py_call(Eval(nd.func, ns),
                            [j \in DOMAIN nd.args |-> Eval(nd.args[j], ns)])
    IN  Eval(node, namespace)

\* what eval gives its caller: the value it returns or the exception it raises
NoException == [type |-> None]
Returns(value) == [raised |-> NoException, value |-> value]
Raises(exc) == [raised |-> exc, value |-> NoneVal]

\* ParsedExpressionError(message), the message kept as what starts it (e) and
\* the text, if any, and the type that the code formats into it
ParsedExpressionError(e, expression, model_cls) ==
    [type |-> "ParsedExpressionError", e |-> e, expression |-> expression,
     model_cls |-> model_cls]
KeyError == [type |-> "KeyError"]

RECURSIVE model_ids(_, _)
\* the keys of related_objects[model_type] in the order the dict keeps them,
\* that of their first token
model_ids(obj_tables_tokens, model_type) ==
    IF obj_tables_tokens = <<>> THEN <<>>
    ELSE IF Head(obj_tables_tokens).code # "obj_id"
            \/ Head(obj_tables_tokens).model_type # model_type
    THEN model_ids(Tail(obj_tables_tokens), model_type)
    ELSE <<Head(obj_tables_tokens).model_id>>
         \o SelectSeq(model_ids(Tail(obj_tables_tokens), model_type),
                      LAMBDA id : id # Head(obj_tables_tokens).model_id)

\* a loop that leaves every term to the values of the caller
first_loop_skipped(self, todo) == <<>>

RECURSIVE first_loop(_, _)
\* eval, the steps of the loop that binds the expression-valued and the
\* static terms, for the term types todo
first_loop(self, todo) ==
    IF todo = <<>> THEN <<>>
    ELSE (IF Head(todo) \notin DOMAIN self.related_objects THEN <<>>
          ELSE IF expression_term_model(Head(todo))
          THEN <<[op |-> "clear", model_type |-> Head(todo)]>>
               \o [j \in DOMAIN model_ids(self.obj_tables_tokens, Head(todo)) |->
                     [op |-> "expression", model_type |-> Head(todo),
                      id |-> model_ids(self.obj_tables_tokens, Head(todo))[j]]]
          ELSE IF expression_term_value(Head(todo))
          THEN <<[op |-> "clear", model_type |-> Head(todo)]>>
               \o [j \in DOMAIN model_ids(self.obj_tables_tokens, Head(todo)) |->
                     [op |-> "value", model_type |-> Head(todo),
                      id |-> model_ids(self.obj_tables_tokens, Head(todo))[j]]]
          ELSE <<>>)
         \o first_loop(self, Tail(todo))

RECURSIVE second_loop(_, _)
\* eval, the steps of the loop that multiplies each bound value by its units
second_loop(self, todo) ==
    IF todo = <<>> THEN <<>>
    ELSE (IF Head(todo) \notin DOMAIN self.related_objects THEN <<>>
          ELSE [j \in DOMAIN model_ids(self.obj_tables_tokens, Head(todo)) |->
                  [op |-> "units", model_type |-> Head(todo),
                   id |-> model_ids(self.obj_tables_tokens, Head(todo))[j]]])
         \o second_loop(self, Tail(todo))

\* eval, lines 1184-1185: namespace[type] = values[type] for every type
\* that the caller supplies
bind_values(namespace, values) ==
    [name \in (DOMAIN namespace) \cup (DOMAIN values) |->
        IF name \in DOMAIN values THEN values[name] ELSE namespace[name]]

\* eval, lines 1214-1221 on the outcome of Python's eval
eval_outcome(self, outcome) ==
    IF outcome.exc = None THEN Returns(outcome.v)
    ELSE Raises(ParsedExpressionError(
            CASE outcome.exc = "SyntaxError" -> "SyntaxError:"
              [] outcome.exc = "NameError" -> "NameError:"
              [] OTHER -> "Exception:",
            Some(self.py_tokens), self.model_cls))

RECURSIVE eval(_, _, _, _)
\* ParsedExpression.eval(values, with_units) on the instance self, exprs
\* being the ParsedExpressions of the expression-valued instances: the
\* instance and those as the call leaves them (the name space that the
\* instance keeps is the dict that the preparation changes), and what the
\* call returns or raises. A step of the preparation works on st: the name
\* space, the nested expressions and the exception raised, if any.
eval(self, exprs, values, with_units) ==
    LET
        RECURSIVE Prepare(_, _)

        \* lines 1200-1207 for one instance, bound being namespace[type][id]
        UnitsStep(st, step, model, bound) ==
            IF bound.exc # None THEN [st EXCEPT !.raised = KeyError]
            ELSE IF model.units = None
            THEN [st EXCEPT !.raised =
                     ParsedExpressionError("Units must be defined", NoneVal, None)]
            ELSE IF model.units \notin Units
            THEN [st EXCEPT !.raised =
                     ParsedExpressionError("Unsupported units", NoneVal, None)]
            ELSE [st EXCEPT !.namespace[step.model_type] =
                     SetItem(@, step.id,
                             [bound.v EXCEPT !.units = UnitsProduct(@, model.units)])]

        \* line 1191 after the evaluation nested of the nested expression key
        NestedStep(st, step, key, nested) ==
            IF nested.ret.raised.type # None
            THEN [st EXCEPT !.exprs = [nested.exprs EXCEPT ![key] = nested.self],
                            !.raised = nested.ret.raised]
            ELSE [st EXCEPT !.exprs = [nested.exprs EXCEPT ![key] = nested.self],
                            !.namespace[step.model_type] =
                                SetItem(@, step.id, nested.ret.value)]

        Step(step, st) ==
            CASE step.op = "clear" ->
                    [st EXCEPT !.namespace = Put(@, step.model_type, Dict(EmptyDict))]
              [] step.op = "expression" ->
                    NestedStep(st, step,
                        self.related_objects[step.model_type][step.id].expression,
                        eval(st.exprs[self.related_objects[step.model_type][step.id].expression],
                             st.exprs, values, FALSE))
              [] step.op = "value" ->
                    [st EXCEPT !.namespace[step.model_type] =
                        SetItem(@, step.id,
                                self.related_objects[step.model_type][step.id].value)]
              [] step.op = "units" ->
                    UnitsStep(st, step, self.related_objects[step.model_type][step.id],
                        IF step.model_type \in DOMAIN st.namespace
                        THEN GetItem(st.namespace[step.model_type], step.id)
                        ELSE Throws("KeyError"))

        \* the steps work, up to the first that raises
        Prepare(work, st) ==
            IF work = <<>> \/ st.raised.type # None THEN st
            ELSE Prepare(Tail(work), Step(Head(work), st))

        \* from line 1209 on: st is what the preparation left
        Prepared(expression, st) ==
            [self |-> IF with_units
                      THEN [self EXCEPT !.compiled_namespace_with_units = st.namespace]
                      ELSE [self EXCEPT !.compiled_namespace = st.namespace],
             exprs |-> st.exprs,
             \* the mapping of the caller: name space[type] is values[type]
             \* itself, unless the first loop bound the type to a new dict
             values |-> [model_type \in DOMAIN values |->
                           IF model_type \in DOMAIN self.related_objects
                              /\ (expression_term_model(model_type)
                                  \/ expression_term_value(model_type))
                           THEN values[model_type]
                           ELSE st.namespace[model_type]],
             ret |-> IF st.raised.type # None THEN Raises(st.raised)
                     ELSE eval_outcome(self, py_eval(expression, st.namespace))]

        \* from line 1183 on, with the code object and the name space chosen
        Compiled(expression, namespace) ==
            Prepared(expression,
                Prepare(first_loop(self, self.term_order)
                            \o (IF with_units THEN second_loop(self, self.term_order)
                                ELSE <<>>),
                        [namespace |-> bind_values(namespace, values),
                         exprs |-> exprs, raised |-> NoException]))
    IN  IF (IF with_units THEN self.compiled_expression_with_units
            ELSE self.compiled_expression).none
        THEN [self |-> self, exprs |-> exprs, values |-> values,
              ret |-> Raises(ParsedExpressionError("not been successfully compiled",
                                                   Some(self.py_tokens), None))]
        ELSE Compiled((IF with_units THEN self.compiled_expression_with_units
                       ELSE self.compiled_expression).v,
                      IF with_units THEN self.compiled_namespace_with_units
                      ELSE self.compiled_namespace)

\* ParsedExpression.test_eval(values, with_units): a scalar, for all the
\* term types or for one, becomes a defaultdict of that value
test_eval(self, exprs, values, with_units) ==
    LET done ==
            eval(self, exprs,
                 IF "n" \in DOMAIN values
                 THEN [model_type \in DOMAIN self.related_objects |-> DefaultDict(values)]
                 ELSE [model_type \in DOMAIN values |->
                         IF "n" \in DOMAIN values[model_type]
                         THEN DefaultDict(values[model_type])
                         ELSE values[model_type]],
                 with_units)
    IN  \* obj_values is a dict of test_eval, and so is a defaultdict in it;
        \* another value of the mapping of the caller is handed to eval as it is
        [done EXCEPT !.values =
            IF "n" \in DOMAIN values THEN values
            ELSE [model_type \in DOMAIN values |->
                    IF "n" \in DOMAIN values[model_type] THEN values[model_type]
                    ELSE done.values[model_type]]]

\* ---------------------------------- LinearParsedExpressionValidator
VALID_NOTE_TYPES ==
    {"Constant", "Num", "UnaryOp", "UAdd", "USub", "BinOp", "Add", "Sub", "Mult",
     "Load", "Name"}

\* LinearParsedExpressionValidator.__init__
NewValidator ==
    [opaque_ids |-> [id \in {} |-> ""], next_id |-> 1, expression |-> <<>>,
     tree |-> EmptyTuple, is_linear |-> FALSE]

\* LinearParsedExpressionValidator._convert_model_id_to_python_id: the
\* validator as the call leaves it (self) and the identifier (id)
convert_model_id_to_python_id(self, model_id) ==
    LET \* str.isidentifier and keyword.iskeyword on the ids of the model
        isidentifier(id) == id \notin DigitNames
    IN  LET iskeyword(id) == id \in {"and", "if", "in", "is", "not", "or"}
        IN  LET VALID_PYTHON_ID_PREFIX == "opaque_model_id_"
            IN  LET \* the decimal numerals of the suffixes of the opaque identifiers
                    Numeral(n) == CASE n = 1 -> "1" [] n = 2 -> "2" [] n = 3 -> "3" [] OTHER -> "n"
                IN  IF isidentifier(model_id) /\ ~iskeyword(model_id)
                    THEN [self |-> self, id |-> model_id]
                    ELSE IF model_id \in DOMAIN self.opaque_ids
                    THEN [self |-> self, id |-> self.opaque_ids[model_id]]
                    ELSE LET next_opaque_id == VALID_PYTHON_ID_PREFIX \o Numeral(self.next_id)
                         IN  [self |-> [self EXCEPT !.opaque_ids = Put(@, model_id, next_opaque_id),
                                                    !.next_id = @ + 1],
                              id |-> next_opaque_id]

RECURSIVE expr_with_python_ids(_, _)
\* LinearParsedExpressionValidator._expr_with_python_ids: the validator as
\* the call leaves it (self) and the text, as the list of its lexemes (expr)
expr_with_python_ids(self, obj_tables_tokens) ==
    IF obj_tables_tokens = <<>> THEN [self |-> self, expr |-> <<>>]
    ELSE LET tk == Head(obj_tables_tokens)
             conv == convert_model_id_to_python_id(self, tk.model_id)
             self1 == IF tk.code = "obj_id" THEN conv.self ELSE self
             lexeme == IF tk.code = "obj_id" THEN Lexeme("NAME", conv.id)
                       ELSE IF tk.code = "number" THEN Lexeme("NUMBER", tk.token_string)
                       ELSE IF tk.code = "math_func_id" THEN Lexeme("NAME", tk.token_string)
                       ELSE Lexeme("OP", tk.token_string)
             rest == expr_with_python_ids(self1, Tail(obj_tables_tokens))
         IN  [self |-> rest.self, expr |-> <<lexeme>> \o rest.expr]

RECURSIVE node_types(_)
RECURSIVE seq_node_types(_)
\* the type names of the nodes that ast.walk visits, operators and
\* contexts included
node_types(t) ==
    CASE t.k = "Num"       -> {"Constant"}
      [] t.k = "Name"      -> {"Name", "Load"}
      [] t.k = "UnaryOp"   -> {"UnaryOp", t.op} \cup node_types(t.operand)
      [] t.k = "BinOp"     -> {"BinOp", t.op} \cup node_types(t.left) \cup node_types(t.right)
      [] t.k = "Compare"   -> {"Compare"} \cup {t.ops[j] : j \in DOMAIN t.ops}
                              \cup node_types(t.left) \cup seq_node_types(t.comparators)
      [] t.k = "Call"      -> {"Call"} \cup node_types(t.func) \cup seq_node_types(t.args)
      [] t.k = "Starred"   -> {"Starred", "Load"} \cup node_types(t.value)
      [] t.k = "Attribute" -> {"Attribute", "Load"} \cup node_types(t.value)
      [] t.k = "Subscript" -> {"Subscript", "Constant", "Load"} \cup node_types(t.value)
      [] OTHER             -> {"Tuple", "Load"}

seq_node_types(ts) ==
    IF ts = <<>> THEN {} ELSE node_types(Head(ts)) \cup seq_node_types(Tail(ts))

\* a check of the node types whose whitelist also holds the division
validate_node_types_allows_division(tree) ==
    node_types(tree) \ (VALID_NOTE_TYPES \cup {"Div"})

\* LinearParsedExpressionValidator._validate_node_types: the invalid terms
validate_node_types(tree) == node_types(tree) \ VALID_NOTE_TYPES

RECURSIVE RemoveUnaryOps(_)
\* RemoveUnaryOps.visit: +anything to anything, -anything to -1 * anything
RemoveUnaryOps(node) ==
    CASE node.k = "UnaryOp" ->
            LET operand == RemoveUnaryOps(node.operand)
            IN  IF node.op = "UAdd" THEN operand
                ELSE BinOp(Num(-1), "Mult", operand)
      [] node.k = "BinOp" ->
            BinOp(RemoveUnaryOps(node.left), node.op, RemoveUnaryOps(node.right))
      [] OTHER -> node

RECURSIVE MultiplyNums(_)
\* MultiplyNums.visit: multiply adjacent constants
MultiplyNums(node) ==
    IF node.k # "BinOp" THEN node
    ELSE
    LET left == MultiplyNums(node.left)
        right == MultiplyNums(node.right)
    IN  IF node.op = "Mult" /\ left.k = "Num" /\ right.k = "Num"
        THEN Num(left.n * right.n)
        ELSE IF /\ node.op = "Mult" /\ left.k = "Num" /\ right.k = "BinOp"
                /\ right.op = "Mult" /\ right.left.k = "Num"
        THEN BinOp(Num(left.n * right.left.n), "Mult", right.right)
        ELSE BinOp(left, node.op, right)

RECURSIVE DistributeMult(_)
\* DistributeMult.visit: (a +/- b) * c to a * c +/- b * c, else
\* a * (b +/- c) to a * b +/- a * c
DistributeMult(node) ==
    IF node.k # "BinOp" THEN node
    ELSE
    LET left == DistributeMult(node.left)
        right == DistributeMult(node.right)
    IN  IF /\ node.op = "Mult"
           /\ right.k \in {"Num", "Name", "UnaryOp", "BinOp"}
           /\ left.k = "BinOp" /\ left.op \in {"Add", "Sub"}
        THEN BinOp(BinOp(left.left, "Mult", right), left.op, BinOp(left.right, "Mult", right))
        ELSE IF /\ node.op = "Mult"
                /\ left.k \in {"Num", "Name", "UnaryOp", "BinOp"}
                /\ right.k = "BinOp" /\ right.op \in {"Add", "Sub"}
        THEN BinOp(BinOp(left, "Mult", right.left), right.op, BinOp(left, "Mult", right.right))
        ELSE BinOp(left, node.op, right)

RECURSIVE dist_mult(_)
\* LinearParsedExpressionValidator._dist_mult: DistributeMult until the
\* tree no longer changes
dist_mult(tree) ==
    LET visited == DistributeMult(tree)
    IN  IF visited = tree THEN tree ELSE dist_mult(visited)

\* a transformation that leaves every subtraction in the tree
keep_subtraction(node) == node

RECURSIVE DistributeSub(_)
\* DistributeSub.visit: subtraction into addition of -1 times the subtrahend
DistributeSub(node) ==
    IF node.k # "BinOp" THEN node
    ELSE
    LET left == DistributeSub(node.left)
        right == DistributeSub(node.right)
    IN  IF node.op = "Sub" /\ right.k \in {"Name", "Num"}
        THEN BinOp(left, "Add", BinOp(Num(-1), "Mult", right))
        ELSE IF node.op = "Sub" /\ right.k = "BinOp" /\ right.op \in {"Add", "Sub"}
        THEN BinOp(left, "Add",
                   BinOp(BinOp(Num(-1), "Mult", right.left), right.op,
                         BinOp(Num(-1), "Mult", right.right)))
        ELSE IF node.op = "Sub" /\ right.k = "BinOp" /\ right.op = "Mult"
        THEN BinOp(left, "Add",
                   BinOp(BinOp(Num(-1), "Mult", right.left), right.op, right.right))
        ELSE BinOp(left, node.op, right)

RECURSIVE num_values(_)
\* the values of the numeric literals of a tree of numbers, names and operators
num_values(t) ==
    CASE t.k = "Num"     -> {t.n}
      [] t.k = "UnaryOp" -> num_values(t.operand)
      [] t.k = "BinOp"   -> num_values(t.left) \cup num_values(t.right)
      [] OTHER           -> {}

\* LinearParsedExpressionValidator._validate_nums: the numbers that float()
\* rejects (complex literals; the literals of the model are integers)
validate_nums(tree) == {n \in num_values(tree) : n \notin Int}

\* the child nodes of a node of a tree of numbers, names and operators,
\* in the order of its fields
iter_child_nodes(node) ==
    CASE node.k = "BinOp"   -> <<node.left, node.right>>
      [] node.k = "UnaryOp" -> <<node.operand>>
      [] OTHER              -> <<>>

\* ast.walk: the nodes breadth first, a node before its children (operator
\* and context nodes, which no test looks at, are left out)
walk(tree) ==
    LET RECURSIVE walk_queue(_)
        walk_queue(todo) ==
            IF todo = <<>> THEN <<>>
            ELSE <<Head(todo)>> \o walk_queue(Tail(todo) \o iter_child_nodes(Head(todo)))
    IN  walk_queue(<<tree>>)

\* LinearParsedExpressionValidator._expr_has_a_constant
expr_has_a_constant(tree) ==
    LET nodes == walk(tree)
    IN  \/ Len(nodes) = 1 /\ nodes[1].k = "Num"
        \/ \E j \in DOMAIN nodes :
              /\ nodes[j].k = "BinOp" /\ nodes[j].op \in {"Add", "Sub"}
              /\ (nodes[j].left.k = "Num" \/ nodes[j].right.k = "Num")

RECURSIVE num_of_variables_in_a_product(_)
\* LinearParsedExpressionValidator._num_of_variables_in_a_product
num_of_variables_in_a_product(node) ==
    IF node.op # "Mult" THEN 0
    ELSE (IF node.left.k = "Name" THEN 1
          ELSE IF node.left.k = "BinOp" THEN num_of_variables_in_a_product(node.left)
          ELSE 0)
         + (IF node.right.k = "Name" THEN 1
            ELSE IF node.right.k = "BinOp" THEN num_of_variables_in_a_product(node.right)
            ELSE 0)

\* LinearParsedExpressionValidator._max_num_variables_in_a_product
max_num_variables_in_a_product(tree) ==
    LET nodes == walk(tree)
        counts == {0} \cup {num_of_variables_in_a_product(nodes[j]) :
                               j \in {i \in DOMAIN nodes : nodes[i].k = "BinOp"}}
    IN  CHOOSE n \in counts : \A m \in counts : m <= n

\* LinearParsedExpressionValidator._expr_has_products_of_variables
expr_has_products_of_variables(tree) == 1 < max_num_variables_in_a_product(tree)

RECURSIVE product_has_name(_)
\* LinearParsedExpressionValidator._product_has_name
product_has_name(node) ==
    IF node.k = "Name" THEN TRUE
    ELSE IF node.k = "BinOp" /\ node.op = "Mult"
    THEN product_has_name(node.left) \/ product_has_name(node.right)
    ELSE FALSE

RECURSIVE product_has_num(_)
\* LinearParsedExpressionValidator._product_has_num
product_has_num(node) ==
    IF node.k = "Num" THEN TRUE
    ELSE IF node.k = "BinOp" /\ node.op = "Mult"
    THEN product_has_num(node.left) \/ product_has_num(node.right)
    ELSE FALSE

\* LinearParsedExpressionValidator._expr_has_constant_right_of_vars
expr_has_constant_right_of_vars(tree) ==
    LET nodes == walk(tree)
    IN  \E j \in DOMAIN nodes :
           /\ nodes[j].k = "BinOp" /\ nodes[j].op = "Mult"
           /\ product_has_name(nodes[j].left)
           /\ product_has_num(nodes[j].right)

\* what validate and _validate return: (True, None) or (False, error)
RvLinear == [valid |-> TRUE, error |-> None]
RvNotLinear(error) == [valid |-> FALSE, error |-> error]

\* LinearParsedExpressionValidator._validate on the validator self, whose
\* expression is set: the validator as the call leaves it (self, with its
\* tree and is_linear) and what the call returns (rv)
validate_expression(self) ==
    LET
        \* _validate, the checks of the normalized tree normal
        validate_normalized(unchecked, normal) ==
            IF expr_has_a_constant(normal)
            THEN [self |-> [unchecked EXCEPT !.tree = normal],
                  rv |-> RvNotLinear("contains constant term(s)")]
            ELSE IF expr_has_products_of_variables(normal)
            THEN [self |-> [unchecked EXCEPT !.tree = normal],
                  rv |-> RvNotLinear("contains product(s) of variables")]
            ELSE IF expr_has_constant_right_of_vars(normal)
            THEN [self |-> [unchecked EXCEPT !.tree = normal],
                  rv |-> RvNotLinear("contains a constant right of a var in a product")]
            ELSE [self |-> [unchecked EXCEPT !.tree = normal, !.is_linear = TRUE], rv |-> RvLinear]

        \* _validate, after _validate_syntax, which parsed the expression
        validate_parsed(unchecked, parsed) ==
            IF ~parsed.ok
            THEN [self |-> unchecked, rv |-> RvNotLinear("Python syntax error")]
            ELSE IF validate_node_types(parsed.t) # {}
            THEN [self |-> [unchecked EXCEPT !.tree = parsed.t],
                  rv |-> RvNotLinear("contains invalid terms")]
            ELSE IF validate_nums(parsed.t) # {}
            THEN [self |-> [unchecked EXCEPT !.tree = parsed.t],
                  rv |-> RvNotLinear("numbers cannot be coerced to float")]
            ELSE validate_normalized(unchecked,
                     MultiplyNums(DistributeSub(MultiplyNums(dist_mult(
                         MultiplyNums(RemoveUnaryOps(parsed.t)))))))
    IN  validate_parsed([self EXCEPT !.is_linear = FALSE], PyParse(self.expression))

\* a coefficient: a float, or the float nan
Float(v) == [nan |-> FALSE, v |-> v]
NaN == [nan |-> TRUE, v |-> 0]

RECURSIVE coeff_scan(_, _)
\* _get_coeffs_for_vars, the loop over ast.walk: a number sets the
\* coefficient of the next name, a name takes it and resets it to 1
coeff_scan(nodes, coeff) ==
    IF nodes = <<>> THEN <<>>
    ELSE LET node == Head(nodes)
         IN  IF node.k = "Num" THEN coeff_scan(Tail(nodes), node.n)
             ELSE IF node.k = "Name"
             THEN <<[coeff |-> coeff, id |-> node.id]>> \o coeff_scan(Tail(nodes), 1)
             ELSE coeff_scan(Tail(nodes), coeff)

\* LinearParsedExpressionValidator._get_coeffs_for_vars: the (coefficient,
\* model id) pairs, the opaque identifiers mapped back to the model ids
get_coeffs_for_vars(self) ==
    LET coeff_model_id_pairs == coeff_scan(walk(self.tree), 1)
        IsOpaque(py_id) == \E id \in DOMAIN self.opaque_ids : self.opaque_ids[id] = py_id
        inverted_opaque_ids(py_id) ==
            CHOOSE id \in DOMAIN self.opaque_ids : self.opaque_ids[id] = py_id
    IN  [j \in DOMAIN coeff_model_id_pairs |->
            [coeff |-> coeff_model_id_pairs[j].coeff,
             id |-> IF IsOpaque(coeff_model_id_pairs[j].id)
                    THEN inverted_opaque_ids(coeff_model_id_pairs[j].id)
                    ELSE coeff_model_id_pairs[j].id]]

\* LinearParsedExpressionValidator.get_cls_and_model: the class and the
\* instance of the related object whose id attribute is id, (None, None)
\* if there is none, or ParsedExpressionError if there are several
get_cls_and_model(related_objects, id) ==
    LET found == {tk \in UNION {{<<T, k>> : k \in DOMAIN related_objects[T]} :
                                   T \in DOMAIN related_objects} :
                     related_objects[tk[1]][tk[2]].id = id}
        one == CHOOSE tk \in found : TRUE
    IN  IF Cardinality(found) > 1
        THEN [raised |-> "ParsedExpressionError", cls |-> None, model |-> NoneInst]
        ELSE IF found = {}
        THEN [raised |-> None, cls |-> None, model |-> NoneInst]
        ELSE [raised |-> None, cls |-> one[1], model |-> related_objects[one[1]][one[2]]]

RECURSIVE add_coeffs(_, _, _)
\* _set_lin_coeffs, the loop over the coefficients: lin_coeffs as the loop
\* leaves it and the exception it raised, if any
add_coeffs(lin_coeffs, related_objects, pairs) ==
    IF pairs = <<>> THEN [lin_coeffs |-> lin_coeffs, raised |-> None]
    ELSE LET found == get_cls_and_model(related_objects, Head(pairs).id)
         IN  IF found.raised # None
             THEN [lin_coeffs |-> lin_coeffs, raised |-> found.raised]
             ELSE IF found.cls \notin DOMAIN lin_coeffs
                     \/ found.model \notin DOMAIN lin_coeffs[found.cls]
             THEN [lin_coeffs |-> lin_coeffs, raised |-> "KeyError"]
             ELSE add_coeffs(
                      [lin_coeffs EXCEPT ![found.cls][found.model] =
                          Float(@.v + Head(pairs).coeff)],
                      related_objects, Tail(pairs))

\* a version that starts every coefficient from 0.0, linear or not
set_lin_coeffs_zero_default(self, parsed_expression) ==
    LET related_objects == parsed_expression.related_objects
        defaults ==
            [T \in expression_term_models |->
                IF T \in DOMAIN related_objects
                THEN [m \in {related_objects[T][k] : k \in DOMAIN related_objects[T]}
                         |-> Float(0)]
                ELSE [m \in {} |-> Float(0)]]
    IN  IF ~self.is_linear THEN [lin_coeffs |-> defaults, raised |-> None]
        ELSE add_coeffs(defaults, related_objects, get_coeffs_for_vars(self))

\* LinearParsedExpressionValidator._set_lin_coeffs: lin_coeffs of the parsed
\* expression as the call leaves it and the exception it raised, if any
set_lin_coeffs(self, parsed_expression) ==
    LET default_val == IF self.is_linear THEN Float(0) ELSE NaN
        related_objects == parsed_expression.related_objects
        defaults ==
            [T \in expression_term_models |->
                IF T \in DOMAIN related_objects
                THEN [m \in {related_objects[T][k] : k \in DOMAIN related_objects[T]}
                         |-> default_val]
                ELSE [m \in {} |-> default_val]]
    IN  IF ~self.is_linear THEN [lin_coeffs |-> defaults, raised |-> None]
        ELSE add_coeffs(defaults, related_objects, get_coeffs_for_vars(self))

\* LinearParsedExpressionValidator.validate: the validator (self) and the
\* parsed expression as the call leaves them, what it returns (rv) and the
\* exception it raised, if any
validate(self, parsed_expression, set_linear_coeffs) ==
    LET
        \* validate, the call of _set_lin_coeffs, which left coeffs
        validate_coeffs(validated, coeffs) ==
            [self |-> validated.self,
             parsed_expression |-> [parsed_expression EXCEPT !.lin_coeffs = coeffs.lin_coeffs],
             rv |-> validated.rv, raised |-> coeffs.raised]

        \* validate, after the call of _validate, which left validated
        validate_checked(validated) ==
            IF ~set_linear_coeffs
            THEN [self |-> validated.self, parsed_expression |-> parsed_expression,
                  rv |-> validated.rv, raised |-> None]
            ELSE validate_coeffs(validated, set_lin_coeffs(validated.self, parsed_expression))

        \* validate, after the call of _expr_with_python_ids, which left conv
        validate_converted(conv) ==
            IF conv.expr = <<>>
            THEN [self |-> [conv.self EXCEPT !.expression = conv.expr],
                  parsed_expression |-> parsed_expression,
                  rv |-> RvNotLinear(None), raised |-> "ValueError"]
            ELSE validate_checked(validate_expression([conv.self EXCEPT !.expression = conv.expr]))
    IN  validate_converted(expr_with_python_ids(self, parsed_expression.obj_tables_tokens))

\* ------------------------------------------------ the expressions
\* The expressions the caller writes: every sequence of at most MaxLen
\* tokens of the alphabet, the text of every tree of size at most MaxSize
\* over all the operators, and the text of every sum or difference of at
\* most MaxTerms terms.

\* the lexer cannot produce a token glued to its predecessor where the two
\* would lex as one token or as other tokens: a name or number after a name
\* or number, a dot after a number, a number after a dot, a dot after a dot
\* (three make an ellipsis); the first token has no predecessor
Lex(toks) ==
    [j \in DOMAIN toks |->
        IF j = 1 THEN [toks[j] EXCEPT !.adj = FALSE]
        ELSE IF \/ toks[j].type \in {"NAME", "NUMBER"} /\ toks[j - 1].type \in {"NAME", "NUMBER"}
                \/ toks[j].string = "." /\ toks[j - 1].type = "NUMBER"
                \/ toks[j].type = "NUMBER" /\ toks[j - 1].string = "."
                \/ toks[j].string = "." /\ toks[j - 1].string = "."
        THEN [toks[j] EXCEPT !.adj = FALSE]
        ELSE toks[j]]

ShortExprs ==
    LET Alphabet ==
            {NameTok(n, TRUE) : n \in {"x", "3y", "A", "f"}}
            \cup {NumTok("2"), BadTok("@"), OpTok("+", FALSE), OpTok("(", TRUE), OpTok(")", FALSE)}
            \cup {OpTok(".", a) : a \in BOOLEAN}
    IN  LET \* tokenize.tokenize in ParsedExpression.__init__ raises TokenError, and the
            \* constructor ParsedExpressionError, unless the text has as many closing
            \* as opening parentheses (the nesting level is not 0 at its end)
            Tokenizable(toks) ==
                Cardinality({j \in DOMAIN toks : toks[j].string = "("})
                    = Cardinality({j \in DOMAIN toks : toks[j].string = ")"})
        IN  {e \in UNION {{Lex(e) : e \in [1..n -> Alphabet]} : n \in 0..MaxLen} : Tokenizable(e)}

RECURSIVE Unparse(_)
\* the tokens of the text of a tree, with the parentheses the grammar
\* needs; Precedence is the binding strength of the outermost operator
Unparse(t) ==
    LET Precedence(u) ==
            CASE u.k = "Compare" -> 1
              [] u.k = "BinOp" /\ u.op \in {"Add", "Sub"} -> 2
              [] u.k = "BinOp" /\ u.op \in {"Mult", "Div"} -> 3
              [] u.k = "UnaryOp" -> 4
              [] u.k = "BinOp" /\ u.op = "Pow" -> 5
              [] OTHER -> 6
        OpText(op) ==
            CASE op = "Add" -> "+" [] op = "Sub" -> "-" [] op = "Mult" -> "*"
              [] op = "Div" -> "/" [] op = "Pow" -> "**" [] op = "Lt" -> "<"
              [] op = "USub" -> "-" [] OTHER -> "+"
        NumText(n) == IF n = 3 THEN "3" ELSE "2"
        Wrap(c, needed) ==
            IF needed THEN <<OpTok("(", FALSE)>> \o Unparse(c) \o <<OpTok(")", FALSE)>>
            ELSE Unparse(c)
    IN  CASE t.k = "Num"  -> <<NumTok(NumText(t.n))>>
          [] t.k = "Name" -> <<NameTok(t.id, TRUE)>>
          [] t.k = "Call" ->
                Unparse(t.func) \o <<OpTok("(", TRUE)>> \o Unparse(t.args[1])
                \o <<OpTok(")", FALSE)>>
          [] t.k = "UnaryOp" ->
                <<OpTok(OpText(t.op), FALSE)>> \o Wrap(t.operand, Precedence(t.operand) < 4)
          [] t.k = "Compare" ->
                Wrap(t.left, Precedence(t.left) <= 1)
                \o <<OpTok(OpText(t.ops[1]), FALSE)>>
                \o Wrap(t.comparators[1], Precedence(t.comparators[1]) <= 1)
          [] t.k = "BinOp" /\ t.op = "Pow" ->
                Wrap(t.left, Precedence(t.left) <= 5)
                \o <<OpTok("**", FALSE)>>
                \o Wrap(t.right, Precedence(t.right) < 4)
          [] OTHER ->
                Wrap(t.left, Precedence(t.left) < Precedence(t))
                \o <<OpTok(OpText(t.op), FALSE)>>
                \o Wrap(t.right, Precedence(t.right) <= Precedence(t))

\* what the caller constructs a ParsedExpression from: the tokens of the
\* expression and the registry
Input(py_tokens, objs) == [py_tokens |-> py_tokens, objs |-> objs]

\* -------------------------------------------------------------- state
VARIABLES
    pe,         \* the ParsedExpression instance
    validator,  \* the LinearParsedExpressionValidator instance
    call,       \* the last call and its arguments
    ret,        \* what the last call of tokenize returned
    rv,         \* what the last call of validate returned
    prev,       \* the call of tokenize before the last call of tokenize, if
                \* the one followed the other: its arguments, its result
                \* and the state it left
    ev,         \* what the last call of eval or test_eval gave
    exprs,      \* the ParsedExpression instances of the expression-valued
                \* instances of the registry, by the key of their owner
    threads     \* the threads that evaluate an instance of their own, each
                \* with its instance, its position in eval and eval's locals

vars == <<pe, validator, call, ret, rv, prev, ev, exprs, threads>>

\* ParsedExpression.__init__ for an owning type model_cls with the term
\* types term_order; the order is that in which the instance's set of
\* term types is iterated
ParsedExpression(model_cls, term_order, py_tokens, objs) ==
    reset_tokenization(
        [model_cls |-> model_cls, term_order |-> term_order,
         py_tokens |-> py_tokens,
         term_models |-> {term_order[j] : j \in DOMAIN term_order}, objs |-> objs,
         related_objects |-> <<>>, lin_coeffs |-> <<>>, errors |-> <<>>,
         obj_tables_tokens |-> <<>>,
         compiled_expression |-> NoneVal, compiled_expression_with_units |-> NoneVal,
         compiled_namespace |-> EmptyDict, compiled_namespace_with_units |-> EmptyDict,
         \* the attribute is_linear, which Expression.deserialize and
         \* Expression.validate set and __init__ does not
         is_linear |-> NoneVal])

\* a ParsedExpression of the type whose term types are A and B
NewParsedExpression(py_tokens, objs) ==
    ParsedExpression("Expr", <<"A", "B">>, py_tokens, objs)

\* ---------------------------------------------------- Expression
\* Expression.validate(model_obj) for an expression object with the text
\* expression and, by type, the instances attached to it through its
\* relationship attributes, each under its primary attribute: the
\* ParsedExpression that the call leaves on the object, the exception that
\* escapes, if any, and what the call returns, None (valid) or an
\* InvalidObject with its error. Meta.expression_type of the owning type is
\* None, so the type of the value of test_eval is not checked.
Expression_validate(expression, attached) ==
    LET \* Meta.expression_is_linear of the owning type
        expression_is_linear == FALSE

        Object(parsed_expression, raised, valid, error) ==
            [parsed_expression |-> parsed_expression,
             rv |-> [raised |-> raised, valid |-> valid, error |-> error]]
        InvalidObject(parsed_expression, error) ==
            Object(parsed_expression, None, FALSE, error)

        \* from the check of linearity on
        validate_linear(parsed_expression, is_linear) ==
            IF expression_is_linear /\ ~is_linear
            THEN InvalidObject(parsed_expression, "Expression must be linear in species counts")
            ELSE Object(parsed_expression, None, TRUE, None)

        \* after the call of test_eval, which gave tested
        validate_tested(is_linear, tested) ==
            IF tested.ret.raised.type = "ParsedExpressionError"
            THEN InvalidObject(tested.self, tested.ret.raised.e)
            ELSE IF tested.ret.raised.type # None
            THEN Object(tested.self, tested.ret.raised.type, FALSE, None)
            ELSE validate_linear(tested.self, is_linear)

        \* the check that the related objects match the tokens
        validate_related(parsed_expression, is_linear) ==
            LET related_objs ==
                    [T \in {U \in DOMAIN attached : DOMAIN attached[U] # {}} |->
                        {attached[T][k] : k \in DOMAIN attached[T]}]
                tokens ==
                    {parsed_expression.obj_tables_tokens[j] :
                        j \in {i \in DOMAIN parsed_expression.obj_tables_tokens :
                                  parsed_expression.obj_tables_tokens[i].model_type # None}}
                token_objs ==
                    [T \in {tk.model_type : tk \in tokens} |->
                        {tk.model : tk \in {u \in tokens : u.model_type = T}}]
            IN  IF related_objs # token_objs
                THEN InvalidObject(parsed_expression,
                         "Related objects must match the tokens of the analyzed expression")
                ELSE validate_tested(is_linear,
                         test_eval(parsed_expression, EmptyDict, Scalar(1), FALSE))

        \* after the call of LinearParsedExpressionValidator().validate
        validate_validated(validated) ==
            IF validated.raised # None
            THEN Object(validated.parsed_expression, validated.raised, FALSE, None)
            ELSE validate_related([validated.parsed_expression EXCEPT
                                       !.is_linear = Some(validated.rv.valid)],
                                   validated.rv.valid)

        \* after the call of tokenize
        validate_tokenized(tokenized) ==
            IF tokenized.ret.raised # None
            THEN Object(tokenized.self, tokenized.ret.raised, FALSE, None)
            ELSE IF tokenized.ret.tokens.none
            THEN InvalidObject(tokenized.self, tokenized.ret.errors.v[1].e)
            ELSE validate_validated(validate(NewValidator, tokenized.self, TRUE))
    IN  validate_tokenized(tokenize(NewParsedExpression(expression, attached), FALSE))

NoCall == [op |-> "none"]
NotCalled == [raised |-> "not called"]
NotEvaluated == [raised |-> [type |-> "not called"], value |-> NoneVal]

InitFrom(inputs) ==
    /\ \E in \in inputs : pe = NewParsedExpression(in.py_tokens, in.objs)
    /\ validator = NewValidator
    /\ call = NoCall
    /\ ret = NotCalled
    /\ rv = NotCalled
    /\ prev = NoCall
    /\ ev = NotEvaluated
    /\ exprs = EmptyDict
    /\ threads = <<>>

Init == InitFrom({Input(e, r) : e \in ShortExprs, r \in Registries})
InitTrees ==
    LET \* the trees over all the operators with at most MaxSize leaves and unary
        \* nodes
        GenTrees ==
            LET RECURSIVE GenTreesOfSize(_)
                GenLeaves == {Name("x"), Num(2)}
                GenUnary(t) ==
                    {UnaryOp("USub", t), UnaryOp("UAdd", t), Call(Name("f"), <<t>>)}
                GenBinary(l, r) ==
                    {BinOp(l, op, r) : op \in {"Add", "Sub", "Mult", "Div", "Pow"}}
                    \cup {Compare(l, <<"Lt">>, <<r>>)}
                GenTreesOfSize(n) ==
                    IF n = 1 THEN GenLeaves
                    ELSE UNION {GenUnary(t) : t \in GenTreesOfSize(n - 1)}
                         \cup UNION {UNION {GenBinary(l, r) : l \in GenTreesOfSize(m),
                                                              r \in GenTreesOfSize(n - m)} :
                                        m \in 1..(n - 1)}
            IN  UNION {GenTreesOfSize(n) : n \in 1..MaxSize}
    IN  InitFrom({Input(Lex(Unparse(t)), PlainRegistry) : t \in GenTrees})
InitSums ==
    LET \* the sums and differences of at most MaxTerms terms, in every grouping
        SumTrees ==
            LET RECURSIVE SumTreesOfSize(_)
                SumTerms == {Name("x"), BinOp(Num(2), "Mult", Name("3y"))}
                SumBinary(l, r) == {BinOp(l, op, r) : op \in {"Add", "Sub"}}
                SumTreesOfSize(n) ==
                    IF n = 1 THEN SumTerms
                    ELSE UNION {UNION {SumBinary(l, r) : l \in SumTreesOfSize(m),
                                                         r \in SumTreesOfSize(n - m)} :
                                   m \in 1..(n - 1)}
            IN  UNION {SumTreesOfSize(n) : n \in 1..MaxTerms}
    IN  InitFrom({Input(Lex(Unparse(t)), PlainRegistry) : t \in SumTrees})

\* the state that a call of tokenize leaves, done being what the method
\* computed
TokenizeReturns(done, case_fold_match) ==
    /\ pe' = done.self
    /\ ret' = done.ret
    /\ call' = [op |-> "tokenize", case_fold_match |-> case_fold_match]
    /\ prev' = IF call.op = "tokenize"
               THEN [op |-> "tokenize", case_fold_match |-> call.case_fold_match,
                     ret |-> ret, pe |-> pe]
               ELSE NoCall
    /\ UNCHANGED <<validator, rv, ev, exprs, threads>>

\* parsed_expression.tokenize(case_fold_match)
Tokenize(case_fold_match) ==
    TokenizeReturns(tokenize(pe, case_fold_match), case_fold_match)

\* the state that a call of validate leaves, done being what the method
\* computed
ValidateReturns(done, set_linear_coeffs) ==
    /\ validator' = done.self
    /\ pe' = done.parsed_expression
    /\ rv' = [raised |-> done.raised, valid |-> done.rv.valid, error |-> done.rv.error]
    /\ call' = [op |-> "validate", set_linear_coeffs |-> set_linear_coeffs]
    /\ prev' = NoCall
    /\ UNCHANGED <<ret, ev, exprs, threads>>

\* validator.validate(parsed_expression, set_linear_coeffs)
Validate(set_linear_coeffs) ==
    ValidateReturns(validate(validator, pe, set_linear_coeffs), set_linear_coeffs)

Next ==
    \/ \E case_fold_match \in BOOLEAN : Tokenize(case_fold_match)
    \/ \E set_linear_coeffs \in BOOLEAN : Validate(set_linear_coeffs)

Spec == Init /\ [][Next]_vars

\* the calls of Expression.deserialize: tokenize() and validate(), each with
\* the default value of its optional argument
NextDefault == Tokenize(FALSE) \/ Validate(TRUE)

\* the program on the expression trees and on the sums
SpecTrees == InitTrees /\ [][NextDefault]_vars
SpecSums == InitSums /\ [][NextDefault]_vars

\* ------------------------------------------------- the evaluations
\* A registry whose instances carry what eval reads: the term types are the
\* dynamic A, the static Parameter (with a value) and the expression-valued
\* SubFunction (with an expression); units are a Unit, None or a str.
EvalRegistry ==
    [A |-> [id \in {"x", "Y"} |->
              [cls |-> "A", id |-> id,
               units |-> IF id = "x" THEN "dimensionless" ELSE None]],
     Parameter |-> [id \in {"p", "q"} |->
              [cls |-> "Parameter", id |-> id,
               value |-> IF id = "p" THEN Scalar(2) ELSE Scalar(0),
               units |-> IF id = "p" THEN "dimensionless" ELSE "g/l"]],
     SubFunction |-> [id \in {"g", "h"} |->
              [cls |-> "SubFunction", id |-> id, expression |-> id,
               units |-> "dimensionless"]]]

\* the expressions of the SubFunctions, as Expression.deserialize leaves
\* them: g is x * p; h is x +, which does not compile
SubFunctionExpressions ==
    [key \in {"g", "h"} |->
        tokenize(ParsedExpression("SubFunctionExpression", <<"A", "Parameter">>,
                     Lex(<<NameTok("x", TRUE),
                           OpTok(IF key = "g" THEN "*" ELSE "+", FALSE)>>
                         \o (IF key = "g" THEN <<NameTok("p", TRUE)>> ELSE <<>>)),
                     EvalRegistry),
                 FALSE).self]

\* the values that the caller of eval supplies, by term type, and those
\* that the caller of test_eval supplies
EvalValues ==
    { EmptyDict,
      [A |-> Dict([id \in {"x"} |-> Scalar(2)]),
       Parameter |-> Dict([id \in {"p", "q"} |-> Scalar(5)]),
       SubFunction |-> Dict([id \in {"g", "h"} |-> Scalar(7)])] }
TestEvalValues == {Scalar(1), [A |-> Scalar(3)]}

InitEval ==
    LET \* the expressions that are evaluated: a term, two terms and an operator,
        \* and four that cannot be tokenized
        EvalExprs ==
            LET EvalTerms ==
                    {<<NameTok(id, TRUE)>> : id \in {"x", "Y", "p", "q", "g", "h"}}
                    \cup {<<NumTok("2")>>}
                EvalOps == {"/"}
            IN
            {Lex(t) : t \in EvalTerms}
            \cup {Lex(l \o <<OpTok(op, FALSE)>> \o r) : l \in EvalTerms, r \in EvalTerms, op \in EvalOps}
            \cup {<<>>, Lex(<<NameTok("z", TRUE)>>), Lex(<<NameTok("x", TRUE), OpTok("+", FALSE)>>),
                  Lex(<<NameTok("x", TRUE), BadTok("@")>>)}
    IN  LET \* the orders in which the set of the three term types can be iterated
            TermOrders ==
                {order \in [1..3 -> {"A", "Parameter", "SubFunction"}] :
                    \A i, j \in 1..3 : order[i] = order[j] => i = j}
        IN  /\ \E e \in EvalExprs, order \in TermOrders :
                    pe = ParsedExpression("Expr", order, e, EvalRegistry)
            /\ validator = NewValidator
            /\ call = NoCall
            /\ ret = NotCalled
            /\ rv = NotCalled
            /\ prev = NoCall
            /\ ev = NotEvaluated
            /\ exprs = SubFunctionExpressions
            /\ threads = <<>>

\* the state that a call of eval or of test_eval leaves, done being what the
\* method computed
EvalReturns(done, op, values, with_units) ==
    /\ pe' = done.self
    /\ exprs' = done.exprs
    /\ ev' = done.ret
    /\ call' = [op |-> op, values |-> values, with_units |-> with_units,
                left |-> done.values]
    /\ UNCHANGED <<validator, ret, rv, prev, threads>>

\* parsed_expression.eval(values, with_units)
Eval(values, with_units) ==
    EvalReturns(eval(pe, exprs, values, with_units), "eval", values, with_units)

\* parsed_expression.test_eval(values, with_units)
TestEval(values, with_units) ==
    EvalReturns(test_eval(pe, exprs, values, with_units), "test_eval", values, with_units)

NextEval ==
    \/ \E case_fold_match \in BOOLEAN : Tokenize(case_fold_match)
    \/ \E values \in EvalValues, with_units \in BOOLEAN : Eval(values, with_units)
    \/ \E values \in TestEvalValues : TestEval(values, FALSE)

SpecEval == InitEval /\ [][NextEval]_vars

InitBad ==
    LET \* the texts with characters that the lexer does not know: for such a
        \* character the lexer gives an ERRORTOKEN, and before it an ERRORTOKEN for
        \* the blank in front of the character, if there is one and the character
        \* does not start the text. BadExprs has the token lists of the texts of at
        \* most MaxLen names, numbers, operators and such characters.
        BadExprs ==
            LET Pieces ==
                    {<<NameTok("x", FALSE)>>, <<NumTok("2")>>, <<OpTok("+", FALSE)>>}
                    \cup {<<BadTok(c)>> : c \in {"$", "?"}}
                    \cup {<<BadTok(" "), BadTok(c)>> : c \in {"$", "?"}}
                RECURSIVE Flat(_)
                Flat(pieces) == IF pieces = <<>> THEN <<>> ELSE Head(pieces) \o Flat(Tail(pieces))
                Texts == UNION {[1..n -> Pieces] : n \in 0..MaxLen}
            IN  {Lex(Flat(t)) : t \in {u \in Texts : u = <<>> \/ Len(u[1]) = 1}}
    IN  InitFrom({Input(e, r) : e \in BadExprs, r \in Registries})
SpecBad == InitBad /\ [][Next]_vars

\* ------------------------------------------------------------ threads
\* Two threads, each with a ParsedExpression of its own over the registry
\* EvalRegistry: a thread tokenizes its instance and evaluates it with the
\* values it supplies. A thread can be suspended between two lines of eval,
\* also while it is in the eval of the expression of a SubFunction: this
\* ParsedExpression is the one of the instance in the registry, so both
\* threads call the same.
Threads == {1, 2}

\* the values that the caller of eval supplies in thread t
ThreadValues(t) == [A |-> Dict([id \in {"x"} |-> Scalar(t + 1)])]

\* the instance of a thread for the text py_tokens, as constructed
ThreadInstance(py_tokens) ==
    ParsedExpression("Expr", <<"A", "Parameter", "SubFunction">>, py_tokens, EvalRegistry)

InitThreads ==
    LET \* the texts of the instances of the threads
        ThreadExprs ==
            {Lex(<<NameTok(id, TRUE)>>) : id \in {"g", "h", "p"}}
            \cup {Lex(<<NameTok("g", TRUE), OpTok("/", FALSE), NameTok("x", TRUE)>>)}
    IN  /\ pe = ThreadInstance(<<>>)
        /\ validator = NewValidator
        /\ call = NoCall
        /\ ret = NotCalled
        /\ rv = NotCalled
        /\ prev = NoCall
        /\ ev = NotEvaluated
        /\ exprs = SubFunctionExpressions
        /\ \E texts \in [Threads -> ThreadExprs] :
               threads = [t \in Threads |->
                            [self |-> ThreadInstance(texts[t]), pc |-> "new",
                             values |-> EmptyDict, work |-> <<>>, key |-> None,
                             ev |-> NotEvaluated]]

\* thread t takes a step that leaves its record as thread and the
\* expressions of the SubFunctions as nested
ThreadSteps(t, thread, nested) ==
    /\ threads' = [threads EXCEPT ![t] = thread]
    /\ exprs' = nested
    /\ UNCHANGED <<pe, validator, call, ret, rv, prev, ev>>

\* thread t calls tokenize on its instance
ThreadTokenize(t) ==
    /\ threads[t].pc = "new"
    /\ ThreadSteps(t, [threads[t] EXCEPT !.self = tokenize(@, FALSE).self, !.pc = "idle"],
                   exprs)

\* thread t calls eval(values) on its instance: lines 1172-1185
ThreadCall(t, values) ==
    /\ threads[t].pc = "idle"
    /\ ThreadSteps(t,
           IF threads[t].self.compiled_expression.none
           THEN [threads[t] EXCEPT
                    !.values = values, !.pc = "done",
                    !.ev = Raises(ParsedExpressionError("not been successfully compiled",
                                      Some(threads[t].self.py_tokens), None))]
           ELSE [threads[t] EXCEPT
                    !.values = values, !.pc = "loop",
                    !.self.compiled_namespace = bind_values(@, values),
                    !.work = first_loop(threads[t].self, threads[t].self.term_order)],
           exprs)

\* thread t, lines 1187-1195 for a step that binds in the name space of the
\* instance of the thread
ThreadBind(t) ==
    /\ threads[t].pc = "loop"
    /\ threads[t].work # <<>>
    /\ Head(threads[t].work).op \in {"clear", "value"}
    /\ ThreadSteps(t,
           [threads[t] EXCEPT
               !.work = Tail(@),
               !.self.compiled_namespace =
                   IF Head(threads[t].work).op = "clear"
                   THEN Put(@, Head(threads[t].work).model_type, Dict(EmptyDict))
                   ELSE [@ EXCEPT ![Head(threads[t].work).model_type] =
                           SetItem(@, Head(threads[t].work).id,
                               threads[t].self.related_objects
                                   [Head(threads[t].work).model_type]
                                   [Head(threads[t].work).id].value)]],
           exprs)

\* thread t, line 1191: it enters the eval of the expression key of a
\* SubFunction, lines 1172-1185 of this call
ThreadEnter(t) ==
    LET ThreadEnters(key) ==
            ThreadSteps(t,
                IF exprs[key].compiled_expression.none
                THEN [threads[t] EXCEPT
                         !.pc = "done",
                         !.ev = Raises(ParsedExpressionError("not been successfully compiled",
                                           Some(exprs[key].py_tokens), None))]
                ELSE [threads[t] EXCEPT !.pc = "nested", !.key = key],
                IF exprs[key].compiled_expression.none THEN exprs
                ELSE [exprs EXCEPT ![key].compiled_namespace =
                         bind_values(@, threads[t].values)])
    IN  /\ threads[t].pc = "loop"
        /\ threads[t].work # <<>>
        /\ Head(threads[t].work).op = "expression"
        /\ ThreadEnters(threads[t].self.related_objects
                            [Head(threads[t].work).model_type]
                            [Head(threads[t].work).id].expression)

\* thread t, the rest of the eval of the expression of a SubFunction, lines
\* 1187-1221 of this call, which gave done, and the assignment of line 1191
ThreadLeave(t) ==
    LET ThreadLeaves(done) ==
            ThreadSteps(t,
                IF done.ret.raised.type # None
                THEN [threads[t] EXCEPT !.pc = "done", !.key = None, !.ev = done.ret]
                ELSE [threads[t] EXCEPT
                         !.pc = "loop", !.key = None, !.work = Tail(@),
                         !.self.compiled_namespace[Head(threads[t].work).model_type] =
                             SetItem(@, Head(threads[t].work).id, done.ret.value)],
                [done.exprs EXCEPT ![threads[t].key] = done.self])
    IN  /\ threads[t].pc = "nested"
        /\ ThreadLeaves(eval(exprs[threads[t].key], exprs, EmptyDict, FALSE))

\* thread t, lines 1209-1221: eval returns or raises
ThreadReturn(t) ==
    /\ threads[t].pc = "loop"
    /\ threads[t].work = <<>>
    /\ ThreadSteps(t,
           [threads[t] EXCEPT
               !.pc = "done",
               !.ev = eval_outcome(threads[t].self,
                          py_eval(threads[t].self.compiled_expression.v,
                                  threads[t].self.compiled_namespace))],
           exprs)

NextThreads ==
    \E t \in Threads :
        \/ ThreadTokenize(t)
        \/ ThreadCall(t, ThreadValues(t))
        \/ ThreadBind(t)
        \/ ThreadEnter(t)
        \/ ThreadLeave(t)
        \/ ThreadReturn(t)

SpecThreads == InitThreads /\ [][NextThreads]_vars

\* ------------------------------------------------------------- claims
\* the last call was tokenize and it returned (it did not raise)
TokenizeReturned == call.op = "tokenize" /\ ret.raised = None
\* the last call was tokenize and it returned the finalized tokens
TokenizeSucceeded == TokenizeReturned /\ ~ret.tokens.none

\* the ObjectReference tokens of a token list
ObjectReferences(obj_tables_tokens) ==
    {obj_tables_tokens[j] :
        j \in {i \in DOMAIN obj_tables_tokens : obj_tables_tokens[i].code = "obj_id"}}

\* the (type, id, instance) triples of a related_objects mapping
RelatedTriples(related_objects) ==
    UNION {{<<T, k, related_objects[T][k]>> : k \in DOMAIN related_objects[T]} :
              T \in DOMAIN related_objects}

RECURSIVE Text(_)
\* the strings of a list, written one after the other
Text(strings) == IF strings = <<>> THEN "" ELSE Head(strings) \o Text(Tail(strings))

\* the source text without its white space, from the Python tokens
SourceText(py_tokens) ==
    Text([j \in DOMAIN py_tokens |-> strip_digit_prefix(py_tokens[j].string)])
\* the text that a token list accounts for
TokensText(obj_tables_tokens) ==
    Text([j \in DOMAIN obj_tables_tokens |-> obj_tables_tokens[j].token_string])

\* C1: after any call of tokenize that returns, either the call succeeded
\* (no errors returned, none on the instance, and the finalized tokens, the
\* ones stored on the instance, account for the whole source text) or it
\* failed (errors returned, the instance's error list non-empty, no tokens
\* returned and none stored on the instance).
C1_TokenizeIsTotal ==
    TokenizeReturned =>
        \/ /\ ret.errors.none
           /\ ~ret.tokens.none
           /\ pe.errors = <<>>
           /\ ret.tokens.v = pe.obj_tables_tokens
           /\ TokensText(pe.obj_tables_tokens) = SourceText(pe.py_tokens)
        \/ /\ ~ret.errors.none
           /\ ret.errors.v # <<>>
           /\ ret.tokens.none
           /\ pe.errors # <<>>
           /\ pe.obj_tables_tokens = <<>>

\* C2: after a successful tokenize, related_objects holds exactly the
\* (type, id) pairs of the ObjectReference tokens, each mapped to the token's
\* instance, with an entry (possibly empty) for every term type, and it is
\* the mapping the call returned.
C2_RelatedObjectsAreTheReferences ==
    TokenizeSucceeded =>
        /\ DOMAIN pe.related_objects = pe.term_models
        /\ RelatedTriples(pe.related_objects) =
               {<<tk.model_type, tk.model_id, tk.model>> :
                   tk \in ObjectReferences(ret.tokens.v)}
        /\ ret.related_objects = Some(pe.related_objects)

\* a successful tokenize of an expression with two references, and a term
\* type that nothing refers to
C2_Witness ==
    /\ TokenizeSucceeded
    /\ Cardinality({j \in DOMAIN ret.tokens.v : ret.tokens.v[j].code = "obj_id"}) = 2
    /\ \E T \in pe.term_models : DOMAIN pe.related_objects[T] = {}

\* C3: every ObjectReference token that tokenize produces carries one of the
\* term types and the instance that the registry holds for the token's id
\* under that type; the id is in the registry of the type.
C3_ReferencesComeFromTheRegistry ==
    \A tk \in ObjectReferences(pe.obj_tables_tokens) :
        /\ tk.model_type \in pe.term_models
        /\ tk.model_type \in DOMAIN pe.objs
        /\ tk.model_id \in DOMAIN pe.objs[tk.model_type]
        /\ tk.model = pe.objs[tk.model_type][tk.model_id]

\* tokenize produced a type-qualified reference, whose text is not its id
C3_Witness ==
    /\ call.op = "tokenize"
    /\ \E tk \in ObjectReferences(pe.obj_tables_tokens) :
           /\ tk.token_string # tk.model_id
           /\ tk.model = pe.objs[tk.model_type][tk.model_id]

\* C4: a call of tokenize that follows a call of tokenize with the same
\* argument returns what the first returned and leaves the instance (tokens,
\* related_objects, errors, compiled expression) as the first left it.
C4_TokenizeIsIdempotent ==
    (/\ call.op = "tokenize"
     /\ prev.op = "tokenize"
     /\ prev.case_fold_match = call.case_fold_match) =>
        /\ ret = prev.ret
        /\ pe = prev.pe

\* two calls in succession of which the first failed and left errors and
\* tokens on the instance
C4_Witness ==
    /\ call.op = "tokenize"
    /\ prev.op = "tokenize"
    /\ prev.case_fold_match = call.case_fold_match
    /\ prev.pe.errors # <<>>
    /\ prev.pe.obj_tables_tokens # <<>>

\* the ids that the registry holds under both term types
SharedIds(objs) == (DOMAIN objs["A"]) \cap (DOMAIN objs["B"])
\* the tokens of the text 'id' and of the text 'Type.id'
BareReference(id) == Lex(<<NameTok(id, TRUE)>>)
QualifiedReference(T, id) == Lex(<<NameTok(T, TRUE), OpTok(".", TRUE), NameTok(id, TRUE)>>)

\* C5: for an id that two term types share, tokenizing the bare id fails with
\* a 'multiple model object id matches' error and produces no reference,
\* and tokenizing Type.id succeeds with the single token that refers to the
\* instance of Type.
C5_SharedIdNeedsItsType ==
    call.op = "tokenize" =>
        \A id \in SharedIds(pe.objs) :
            /\ pe.py_tokens = BareReference(id) =>
                  /\ TokenizeReturned
                  /\ ret.tokens.none
                  /\ ~ret.errors.none
                  /\ \E j \in DOMAIN ret.errors.v :
                         ret.errors.v[j].e = "multiple model object id matches"
                  /\ ObjectReferences(pe.obj_tables_tokens) = {}
            /\ \A T \in pe.term_models :
                  pe.py_tokens = QualifiedReference(T, id) =>
                      /\ TokenizeSucceeded
                      /\ Len(ret.tokens.v) = 1
                      /\ ret.tokens.v[1].code = "obj_id"
                      /\ ret.tokens.v[1].model_type = T
                      /\ ret.tokens.v[1].model = pe.objs[T][id]

\* the qualified form of a shared id has been tokenized
C5_Witness ==
    /\ call.op = "tokenize"
    /\ \E id \in SharedIds(pe.objs) : pe.py_tokens = QualifiedReference("A", id)
    /\ TokenizeSucceeded

\* the last call was validate and it returned (it did not raise)
ValidateReturned == call.op = "validate" /\ rv.raised = None
\* the last call was validate with set_linear_coeffs, and it returned
CoefficientsSet == ValidateReturned /\ call.set_linear_coeffs
\* the last tokenize succeeded, and nothing has changed its result since
Tokenized == ret.raised = None /\ ~ret.tokens.none

\* the identifier that the linearity check uses for a model id
PythonId(id) ==
    IF id \in DOMAIN validator.opaque_ids THEN validator.opaque_ids[id] ELSE id

\* the names of a tree
RECURSIVE TreeNames(_)
TreeNames(t) ==
    CASE t.k = "Name" -> {t.id}
      [] t.k = "UnaryOp" -> TreeNames(t.operand)
      [] t.k = "BinOp" -> TreeNames(t.left) \cup TreeNames(t.right)
      [] OTHER -> {}

\* a polynomial of degree at most 1 over the names: its constant c and the
\* coefficient v[n] of every name n
Constant(names, c) == [linear |-> TRUE, c |-> c, v |-> [n \in names |-> 0]]
Variable(names, id) ==
    [linear |-> TRUE, c |-> 0, v |-> [n \in names |-> IF n = id THEN 1 ELSE 0]]
Scaled(k, p) == [linear |-> p.linear, c |-> k * p.c, v |-> [n \in DOMAIN p.v |-> k * p.v[n]]]
Sum(p, q) ==
    [linear |-> p.linear /\ q.linear, c |-> p.c + q.c,
     v |-> [n \in DOMAIN p.v |-> p.v[n] + q.v[n]]]
IsConstant(p) == p.linear /\ \A n \in DOMAIN p.v : p.v[n] = 0
NotLinear(names) == [linear |-> FALSE, c |-> 0, v |-> [n \in names |-> 0]]

RECURSIVE Expanded(_, _)
\* the expression of a tree, algebraically expanded
Expanded(t, names) ==
    CASE t.k = "Num" -> Constant(names, t.n)
      [] t.k = "Name" -> Variable(names, t.id)
      [] t.k = "UnaryOp" ->
            Scaled(IF t.op = "USub" THEN -1 ELSE 1, Expanded(t.operand, names))
      [] t.k = "BinOp" /\ t.op = "Add" ->
            Sum(Expanded(t.left, names), Expanded(t.right, names))
      [] t.k = "BinOp" /\ t.op = "Sub" ->
            Sum(Expanded(t.left, names), Scaled(-1, Expanded(t.right, names)))
      [] t.k = "BinOp" /\ t.op = "Mult" ->
            LET l == Expanded(t.left, names)
                r == Expanded(t.right, names)
            IN  IF IsConstant(l) THEN Scaled(l.c, r)
                ELSE IF IsConstant(r) THEN Scaled(r.c, l)
                ELSE NotLinear(names)
      [] OTHER -> NotLinear(names)

\* the expanded form of the expression that the linearity check was given
ExpandedExpression ==
    LET parsed == PyParse(validator.expression)
    IN  IF parsed.ok THEN Expanded(parsed.t, TreeNames(parsed.t)) ELSE NotLinear({})

\* lin_coeffs holds, for every related instance, its coefficient in p
CoefficientsAre(p) ==
    \A T \in DOMAIN pe.lin_coeffs :
        \A m \in DOMAIN pe.lin_coeffs[T] :
            /\ PythonId(m.id) \in DOMAIN p.v
            /\ pe.lin_coeffs[T][m] = Float(p.v[PythonId(m.id)])

\* C6: whenever the linearity check classifies an expression as linear, the
\* coefficient stored for each related instance is its coefficient in the
\* algebraically expanded expression.
C6_CoefficientsAreTheExpandedOnes ==
    (CoefficientsSet /\ rv.valid) =>
        /\ ExpandedExpression.linear
        /\ CoefficientsAre(ExpandedExpression)

\* the strings of the Python tokens, without the digit prefix
TokenStrings == [j \in DOMAIN pe.py_tokens |-> strip_digit_prefix(pe.py_tokens[j].string)]
TokenTypes == [j \in DOMAIN pe.py_tokens |-> pe.py_tokens[j].type]

\* the expression is built only from numbers, +, -, * and identifiers, no
\* identifier occurs twice and every number is a coefficient: an operand of
\* a multiplication
BuiltFromCoefficientsAndIdentifiers ==
    /\ \E j \in DOMAIN TokenTypes : TokenTypes[j] = "NAME"
    /\ \A j \in DOMAIN TokenTypes :
          \/ TokenTypes[j] \in {"NAME", "NUMBER"}
          \/ TokenTypes[j] = "OP" /\ TokenStrings[j] \in {"+", "-", "*"}
    /\ \A i, j \in DOMAIN TokenTypes :
          (TokenTypes[i] = "NAME" /\ TokenTypes[j] = "NAME" /\ i # j)
              => TokenStrings[i] # TokenStrings[j]
    /\ \A j \in DOMAIN TokenTypes :
          TokenTypes[j] = "NUMBER" =>
              \E i \in {j - 1, j + 1} \cap DOMAIN TokenTypes : TokenStrings[i] = "*"

RECURSIVE CanonicalTerms(_, _)
\* the terms of the text from token i on, if it has the form
\* term (('+' | '-') term)* with term: id | number '*' id, and sign is the
\* sign of the term at i: ok, and the signed (coefficient, id) pairs
CanonicalTerms(i, sign) ==
    LET Is(j, type) == j <= Len(TokenTypes) /\ TokenTypes[j] = type
        IsOperator(j, ops) == Is(j, "OP") /\ TokenStrings[j] \in ops
        Rest(j, term) ==
            IF j > Len(TokenTypes) THEN [ok |-> TRUE, terms |-> <<term>>]
            ELSE IF IsOperator(j, {"+", "-"})
            THEN LET rest == CanonicalTerms(j + 1, IF TokenStrings[j] = "-" THEN -1 ELSE 1)
                 IN  [ok |-> rest.ok, terms |-> <<term>> \o rest.terms]
            ELSE [ok |-> FALSE, terms |-> <<>>]
    IN  IF Is(i, "NAME")
        THEN Rest(i + 1, [coeff |-> sign, id |-> TokenStrings[i]])
        ELSE IF Is(i, "NUMBER") /\ IsOperator(i + 1, {"*"}) /\ Is(i + 2, "NAME")
        THEN Rest(i + 3, [coeff |-> sign * NumVal(TokenStrings[i]), id |-> TokenStrings[i + 2]])
        ELSE [ok |-> FALSE, terms |-> <<>>]

RECURSIVE SignedSum(_, _)
\* the sum of the signed coefficients of the terms of an id
SignedSum(terms, id) ==
    IF terms = <<>> THEN 0
    ELSE (IF Head(terms).id = id THEN Head(terms).coeff ELSE 0) + SignedSum(Tail(terms), id)

HasNonLinearOperation ==
    \/ \E j \in DOMAIN pe.py_tokens : pe.py_tokens[j].string \in {"/", "**", "<"}
    \/ \E j \in DOMAIN ret.tokens.v : ret.tokens.v[j].code = "math_func_id"

\* C8: for every successfully tokenized expression that holds a function
\* call, a comparison, a division or an exponentiation, the linearity check
\* returns is_linear = false and a reason.
C8_OtherOperationsAreNotLinear ==
    (ValidateReturned /\ Tokenized /\ HasNonLinearOperation) =>
        /\ ~rv.valid
        /\ rv.error # None
        /\ ~validator.is_linear

\* the linearity check has run on a tokenized expression with a division
C8_Witness ==
    /\ ValidateReturned /\ Tokenized
    /\ \E j \in DOMAIN pe.py_tokens : pe.py_tokens[j].string = "/"
    /\ ~rv.valid

RECURSIVE Subtrees(_)
\* the nodes of a tree, each with the subtree below it
Subtrees(t) ==
    {t} \cup CASE t.k = "BinOp" -> Subtrees(t.left) \cup Subtrees(t.right)
               [] t.k = "UnaryOp" -> Subtrees(t.operand)
               [] OTHER -> {}

RECURSIVE Occurrences(_, _)
\* the number of leaves of kind k in a tree
Occurrences(t, k) ==
    CASE t.k = "BinOp" -> Occurrences(t.left, k) + Occurrences(t.right, k)
      [] t.k = "UnaryOp" -> Occurrences(t.operand, k)
      [] OTHER -> IF t.k = k THEN 1 ELSE 0

\* the multiplication nodes of the normalized tree
Multiplications ==
    {n \in Subtrees(validator.tree) : n.k = "BinOp" /\ n.op = "Mult"}

\* (i) the whole tree is a number, or an addition or subtraction has a
\* number as an operand
HasConstantTerm ==
    \/ validator.tree.k = "Num"
    \/ \E n \in Subtrees(validator.tree) :
          /\ n.k = "BinOp" /\ n.op \in {"Add", "Sub"}
          /\ n.left.k = "Num" \/ n.right.k = "Num"
\* (ii) a multiplication subtree holds more than one variable occurrence
HasSeveralVariablesInAMultiplication ==
    \E n \in Multiplications : Occurrences(n, "Name") > 1
\* (iii) a multiplication subtree has a variable to the left of a number
HasVariableLeftOfNumber ==
    \E n \in Multiplications :
        Occurrences(n.left, "Name") > 0 /\ Occurrences(n.right, "Num") > 0

\* the linearity check returned, and not before it normalized the tree
Normalized ==
    /\ ValidateReturned
    /\ rv.error \notin {"Python syntax error", "contains invalid terms",
                        "numbers cannot be coerced to float"}

\* C9: the check classifies the normalized expression as not linear if (i),
\* (ii) or (iii) holds of its tree, with a reason for (iii) that is not the
\* reason for (ii), and as linear if none of them holds.
C9_NotLinearForThreeReasons ==
    Normalized =>
        /\ (HasConstantTerm \/ HasSeveralVariablesInAMultiplication
                \/ HasVariableLeftOfNumber) <=> ~rv.valid
        /\ (HasSeveralVariablesInAMultiplication /\ ~HasConstantTerm) =>
               rv.error = "contains product(s) of variables"
        /\ (/\ HasVariableLeftOfNumber
            /\ ~HasConstantTerm
            /\ ~HasSeveralVariablesInAMultiplication) =>
               rv.error = "contains a constant right of a var in a product"

\* the instances that related_objects holds for a type
RelatedInstances(T) ==
    {pe.related_objects[T][k] : k \in DOMAIN pe.related_objects[T]}

\* C10: after validate with set_linear_coeffs, lin_coeffs has an entry for
\* every term type, with a coefficient for exactly the related instances of
\* the type: NaN for each of them if the expression is not linear, and if it
\* is linear 0.0 plus the coefficients of the occurrences of the instance.
C10_CoefficientsForTheRelatedInstances ==
    CoefficientsSet =>
        /\ DOMAIN pe.lin_coeffs = pe.term_models
        /\ \A T \in pe.term_models :
              /\ DOMAIN pe.lin_coeffs[T] = RelatedInstances(T)
              /\ \A m \in RelatedInstances(T) :
                    pe.lin_coeffs[T][m] =
                        IF rv.valid
                        THEN Float(0 + SignedSum(get_coeffs_for_vars(validator), m.id))
                        ELSE NaN

\* validate has set the coefficient of an instance that occurs twice, and
\* a term type has no related instance
C10_Witness ==
    /\ CoefficientsSet
    /\ rv.valid
    /\ \E T \in pe.term_models : RelatedInstances(T) = {}
    /\ \E T \in pe.term_models :
          \E m \in RelatedInstances(T) :
              /\ pe.lin_coeffs[T][m] = Float(2)
              /\ Len(get_coeffs_for_vars(validator)) = 2

\* ------------------------------------------ expressions of references
\* The expressions of one reference, or of two joined by an operator, each
\* reference bare (id) or type-qualified (Type.id).
RefExprs ==
    LET RefTerms ==
            {BareReference(id) : id \in {"x", "3y"}}
            \cup {QualifiedReference(T, id) : T \in expression_term_models,
                                              id \in {"x", "3y"}}
        RefOps == {"+", "-", "*", "/"}
    IN  RefTerms \cup {Lex(l \o <<OpTok(op, FALSE)>> \o r) :
                          l \in RefTerms, r \in RefTerms, op \in RefOps}
InitRefs == InitFrom({Input(e, r) : e \in RefExprs, r \in Registries})

\* the program on the expressions of references
SpecRefs == InitRefs /\ [][Next]_vars

\* C11: validate, applied to a ParsedExpression whose tokenize succeeded,
\* returns (True, None) or (False, reason) and never raises.
C11_ValidateAlwaysClassifies ==
    (call.op = "validate" /\ Tokenized) =>
        /\ rv.raised = None
        /\ \/ rv.valid /\ rv.error = None
           \/ ~rv.valid /\ rv.error # None


\* the last call was eval or test_eval
Evaluated == call.op \in {"eval", "test_eval"}
\* eval raised the ParsedExpressionError whose message starts with e
EvalRaised(e) == ev.raised.type = "ParsedExpressionError" /\ ev.raised.e = e

\* C12: eval and test_eval return a value only if the most recent call of
\* tokenize succeeded; if tokenize was never called, or its most recent call
\* failed, they raise the ParsedExpressionError 'not been successfully
\* compiled', whatever an earlier call of tokenize had compiled.
C12_EvalNeedsTheLastTokenizeToSucceed ==
    Evaluated =>
        /\ ev.raised.type = None => Tokenized
        /\ ~Tokenized => EvalRaised("not been successfully compiled")
\* tokenize succeeded, then failed, and eval then raised
C12_Witness ==
    /\ Evaluated
    /\ prev.op = "tokenize" /\ prev.ret.raised = None /\ ~prev.ret.tokens.none
    /\ ~Tokenized
    /\ EvalRaised("not been successfully compiled")

\* the name space that the last evaluation used
Namespace ==
    IF call.with_units THEN pe.compiled_namespace_with_units ELSE pe.compiled_namespace
\* the value bound to the instance id of the type T, without its units
Bound(T, id) == [GetItem(Namespace[T], id).v EXCEPT !.units = None]
\* the caller of the last evaluation supplied a value for the instance id of
\* the type T: to eval by type and id, to test_eval as a scalar for all the
\* types or for T
IsSupplied(T, id) ==
    IF call.op = "test_eval"
    THEN "n" \in DOMAIN call.values \/ T \in DOMAIN call.values
    ELSE T \in DOMAIN call.values /\ GetItem(call.values[T], id).exc = None
Supplied(T, id) ==
    IF call.op = "eval" THEN GetItem(call.values[T], id).v
    ELSE IF "n" \in DOMAIN call.values THEN call.values
    ELSE IF "n" \in DOMAIN call.values[T] THEN call.values[T]
    ELSE GetItem(call.values[T], id).v
\* the values that the last evaluation handed to the nested evaluations
HandedOn ==
    IF call.op = "eval" THEN call.values
    ELSE IF "n" \in DOMAIN call.values
    THEN [T \in DOMAIN pe.related_objects |-> DefaultDict(call.values)]
    ELSE [T \in DOMAIN call.values |->
            IF "n" \in DOMAIN call.values[T] THEN DefaultDict(call.values[T])
            ELSE call.values[T]]

\* C13: when eval returns, the value bound to each referenced instance is
\* chosen by the kind of its type: for an expression-valued type it is the
\* value of the nested ParsedExpression of the instance under the same
\* supplied values, for a static type the scalar stored on the instance,
\* and for another type the value that the caller supplied, if any; what the
\* caller supplies for a static or an expression-valued type is not used.
C13_ValuesAreBoundByKind ==
    (Evaluated /\ ev.raised.type = None) =>
        \A T \in DOMAIN pe.related_objects : \A id \in DOMAIN pe.related_objects[T] :
            IF expression_term_model(T)
            THEN Bound(T, id) =
                    eval(exprs[pe.related_objects[T][id].expression], exprs,
                         HandedOn, FALSE).ret.value
            ELSE IF expression_term_value(T)
            THEN Bound(T, id) = pe.related_objects[T][id].value
            ELSE IsSupplied(T, id) => Bound(T, id) = Supplied(T, id)
\* eval returned for an expression that refers to a static and to an
\* expression-valued instance, for each of which the caller supplied a
\* value that is not the one bound
C13_Witness ==
    /\ Evaluated /\ ev.raised.type = None
    /\ \A T \in {"Parameter", "SubFunction"} :
          \E id \in DOMAIN pe.related_objects[T] :
             IsSupplied(T, id) /\ Supplied(T, id) # Bound(T, id)

\* C14: a failure of eval on a compiled expression is a ParsedExpressionError
\* classified 'SyntaxError:', 'NameError:' or 'Exception:' that carries the
\* text of the expression and the name of the owning type, whether it
\* happens while the name space is prepared or while the code runs; no other
\* exception escapes eval.
C14_FailuresAreClassified ==
    (Evaluated /\ Tokenized /\ ev.raised.type # None) =>
        /\ ev.raised.type = "ParsedExpressionError"
        /\ ev.raised.e \in {"SyntaxError:", "NameError:", "Exception:"}
        /\ ev.raised.expression = Some(pe.py_tokens)
        /\ ev.raised.model_cls = pe.model_cls

\* the text starts with a name that an opening parenthesis follows at once,
\* and it has no token outside the whitelist
FunctionCallHead ==
    /\ Len(pe.py_tokens) >= 2
    /\ pe.py_tokens[1].type = "NAME"
    /\ pe.py_tokens[2].type = "OP" /\ pe.py_tokens[2].string = "(" /\ pe.py_tokens[2].adj
    /\ \A j \in DOMAIN pe.py_tokens : pe.py_tokens[j].type # "ERRORTOKEN"
\* the name at the head of the text
HeadName == strip_digit_prefix(pe.py_tokens[1].string)
\* the returned errors have one that names the function and the allowed set
FunctionNameError ==
    /\ ~ret.errors.none
    /\ \E j \in DOMAIN ret.errors.v :
           /\ ret.errors.v[j].e = "func name isn't in expression_valid_functions"
           /\ strip_digit_prefix(ret.errors.v[j].name) = HeadName
           /\ ret.errors.v[j].allowed = expression_valid_functions
\* a successful call gave a FunctionName token and an Operator '(' token for
\* the first two source tokens, and went on with the third
FunctionTokens ==
    TokenizeSucceeded =>
        /\ Len(ret.tokens.v) >= 2
        /\ ret.tokens.v[1] = PlainToken("math_func_id", HeadName)
        /\ ret.tokens.v[2] = PlainToken("op", "(")
        /\ TokensText(SubSeq(ret.tokens.v, 3, Len(ret.tokens.v)))
             = SourceText(SubSeq(pe.py_tokens, 3, Len(pe.py_tokens)))
\* the name at the head of the text is the id of an instance of a term type,
\* as the call of tokenize looks it up
HeadIsAnInstanceId ==
    \E T \in pe.term_models :
        (IF call.case_fold_match THEN casefold(HeadName) ELSE HeadName) \in DOMAIN pe.objs[T]

\* C15: for a text that starts with a name immediately followed by '(', a
\* call of tokenize gives a FunctionName token and an Operator '(' token for
\* these two source tokens if the name is allow-listed; if the name is not
\* allow-listed, tokenize fails, its errors name the function and list the
\* allowed set, and no finalized tokens are returned.
C15_FunctionCallNeedsAnAllowedName ==
    (call.op = "tokenize" /\ FunctionCallHead) =>
        IF HeadName \in expression_valid_functions
        THEN FunctionTokens
        ELSE TokenizeReturned /\ ret.tokens.none /\ FunctionNameError

\* C15, amended: as C15, but a name that is not allow-listed makes tokenize
\* fail only if it is not the id of an instance of a term type either; if it
\* is such an id, the bare reference may match and its token is taken.
C15_FunctionCallNeedsAnAllowedNameOrAnId ==
    (call.op = "tokenize" /\ FunctionCallHead) =>
        IF HeadName \in expression_valid_functions
        THEN FunctionTokens
        ELSE ~HeadIsAnInstanceId =>
                 TokenizeReturned /\ ret.tokens.none /\ FunctionNameError

\* tokenize failed on a text that calls a name that is neither allow-listed
\* nor an id
C15_Witness ==
    /\ call.op = "tokenize" /\ FunctionCallHead
    /\ HeadName \notin expression_valid_functions
    /\ ~HeadIsAnInstanceId
    /\ TokenizeReturned /\ ret.tokens.none /\ FunctionNameError

\* the positions of the source tokens outside the whitelist
Offending == {j \in DOMAIN pe.py_tokens : pe.py_tokens[j].type = "ERRORTOKEN"}
\* what names a token in an error: its text, or the name of its type if
\* the text is a blank
OffendingName(tok) == IF tok.string = " " THEN "ERRORTOKEN" ELSE tok.string

\* C16: if the source has tokens outside the whitelist, tokenize returns
\* failure with exactly one error, 'contains bad token(s)', that lists each
\* distinct offending token once; no error of a resolution strategy is
\* reported, and no finalized token and no related object is produced.
C16_BadTokensAreReportedOnce ==
    (call.op = "tokenize" /\ Offending # {}) =>
        /\ TokenizeReturned
        /\ ret.tokens.none /\ ret.related_objects.none
        /\ ~ret.errors.none
        /\ Len(ret.errors.v) = 1
        /\ ret.errors.v[1].e = "contains bad token(s)"
        /\ ret.errors.v[1].tokens = {OffendingName(pe.py_tokens[j]) : j \in Offending}
        /\ pe.errors = ret.errors.v
        /\ pe.obj_tables_tokens = <<>>
        /\ RelatedTriples(pe.related_objects) = {}

\* tokenize was called on a text with a name, and with bad tokens of which
\* two are the same and two differ
C16_Witness ==
    /\ call.op = "tokenize"
    /\ \E j \in DOMAIN pe.py_tokens : pe.py_tokens[j].type = "NAME"
    /\ \E i, j, k \in Offending :
           /\ i # j /\ pe.py_tokens[i] = pe.py_tokens[j]
           /\ OffendingName(pe.py_tokens[i]) # OffendingName(pe.py_tokens[k])
    /\ Len(ret.errors.v) = 1

\* the ids of the instances of a term type that begin with a digit
DigitIds(T) == (DOMAIN pe.objs[T]) \cap DigitNames
\* the call gave the single token text that refers to the instance id of T
ResolvedTo(text, T, id) ==
    /\ TokenizeSucceeded
    /\ Len(ret.tokens.v) = 1
    /\ ret.tokens.v[1] = ObjTablesToken("obj_id", text, T, id, pe.objs[T][id])

\* C17: the prefix put before an id that begins with a digit is invisible
\* after lexing: tokenizing the bare id, or Type.id, resolves to the
\* instance of the registry as for an ordinary id, with the token's text and
\* id without the prefix, and no returned error carries the prefix.
C17_DigitPrefixIsInvisible ==
    call.op = "tokenize" =>
        /\ \A T \in pe.term_models : \A id \in DigitIds(T) \ SharedIds(pe.objs) :
               /\ pe.py_tokens = BareReference(id) => ResolvedTo(id, T, id)
               /\ pe.py_tokens = QualifiedReference(T, id) =>
                      ResolvedTo(T \o "." \o id, T, id)
        /\ (TokenizeReturned /\ ~ret.errors.none) =>
               \A j \in DOMAIN ret.errors.v :
                   /\ "id" \in DOMAIN ret.errors.v[j] =>
                          ret.errors.v[j].id = strip_digit_prefix(ret.errors.v[j].id)
                   /\ "name" \in DOMAIN ret.errors.v[j] =>
                          ret.errors.v[j].name = strip_digit_prefix(ret.errors.v[j].name)

\* the two threads have returned from eval
ThreadsDone == threads # <<>> /\ \A t \in Threads : threads[t].pc = "done"
\* the instance of thread t as it was when the thread called eval
Tokenized0(t) == tokenize(ThreadInstance(threads[t].self.py_tokens), FALSE).self
\* what eval gives in thread t if the threads in turn call eval, one after
\* the other has returned
OneAfterTheOther(turn, t) ==
    LET first == eval(Tokenized0(turn[1]), SubFunctionExpressions,
                      threads[turn[1]].values, FALSE)
    IN  IF t = turn[1] THEN first.ret
        ELSE eval(Tokenized0(turn[2]), first.exprs, threads[turn[2]].values, FALSE).ret

\* C18: two threads that use a ParsedExpression each over the same registry
\* leave the registry as it was, and whatever the interleaving of their
\* steps, eval gives in each thread what it gives if the instances are
\* used one after the other, also if both expressions have the same
\* expression-valued term and the threads supply different values.
C18_ThreadsWithTheirOwnInstanceAreSafe ==
    ThreadsDone =>
        \A t \in Threads :
            /\ threads[t].self.objs = EvalRegistry
            /\ \E turn \in {<<1, 2>>, <<2, 1>>} : threads[t].ev = OneAfterTheOther(turn, t)

\* --------------------------------------------- expression objects
\* The expression objects: the text is an expression of references, and the
\* instances attached are all those of a registry.
InitAttached ==
    InitFrom({Input(e, r) : e \in RefExprs,
                            r \in Registries \cup {Registry([A |-> {"x"}, B |-> {}]),
                                                   Registry([A |-> {"x"}, B |-> {"x"}])}})

\* model_obj.validate() for the expression object whose text and attached
\* instances are those of pe
ExpressionValidate ==
    LET ExpressionValidates(done) ==
            /\ pe' = done.parsed_expression
            /\ rv' = done.rv
            /\ call' = [op |-> "Expression.validate"]
            /\ prev' = NoCall
            /\ UNCHANGED <<validator, ret, ev, exprs, threads>>
    IN  ExpressionValidates(Expression_validate(pe.py_tokens, pe.objs))

SpecAttached == InitAttached /\ [][ExpressionValidate]_vars

\* the instances attached to the expression object, and those that the
\* ObjectReference tokens of its text carry
AttachedInstances == UNION {{pe.objs[T][k] : k \in DOMAIN pe.objs[T]} : T \in DOMAIN pe.objs}
ReferencedInstances == {tk.model : tk \in ObjectReferences(pe.obj_tables_tokens)}

\* C19: Expression.validate returns an InvalidObject, not None, whenever the
\* instances attached to the expression object differ from the instances
\* that the ObjectReference tokens of its re-parsed text carry.
C19_AttachedMustBeTheReferenced ==
    (call.op = "Expression.validate" /\ AttachedInstances # ReferencedInstances) =>
        rv.raised = None /\ ~rv.valid

InitPatterns ==
    LET \* ------------------------------------------- patterns of several tokens
        \* An owning type whose term types are A, with the pattern of one name, and
        \* C, whose ids are written Name.Name. The texts are a reference, bare or
        \* type-qualified, or a name, a dot and a name apart, alone or with a
        \* reference added to it; the registries have an instance of A whose id is A,
        \* an instance of C whose id is A.x, both or none.
        PatternExprs ==
            LET Heads ==
                    {BareReference(id) : id \in {"x", "A"}}
                    \cup {QualifiedReference(T, id) : T \in {"x", "A"}, id \in {"x", "A"}}
                    \cup {<<NameTok("A", FALSE), OpTok(".", FALSE), NameTok("x", FALSE)>>}
                Tails ==
                    {<<>>} \cup {<<OpTok("+", FALSE)>> \o r :
                                    r \in {BareReference("x"), QualifiedReference("A", "x")}}
            IN  {h \o t : h \in Heads, t \in Tails}
    IN  /\ \E e \in PatternExprs, a \in {{"x"}, {"x", "A"}}, c \in {{}, {"A.x"}} :
               pe = ParsedExpression("PatternExpr", <<"A", "C">>, e, Registry([A |-> a, C |-> c]))
        /\ validator = NewValidator
        /\ call = NoCall
        /\ ret = NotCalled
        /\ rv = NotCalled
        /\ prev = NoCall
        /\ ev = NotEvaluated
        /\ exprs = EmptyDict
        /\ threads = <<>>
SpecPatterns == InitPatterns /\ [][\E case_fold_match \in BOOLEAN : Tokenize(case_fold_match)]_vars

\* an id as the call of tokenize looks it up
Folded(id) == IF call.case_fold_match THEN casefold(id) ELSE id
\* the text starts with Type.id, Type a term type and id the id of one of
\* its instances
QualifiedHead ==
    /\ Len(pe.py_tokens) >= 3
    /\ pe.py_tokens[1].type = "NAME" /\ pe.py_tokens[3].type = "NAME"
    /\ pe.py_tokens[2].string = "." /\ pe.py_tokens[2].adj /\ pe.py_tokens[3].adj
    /\ pe.py_tokens[1].string \in pe.term_models
    /\ Folded(pe.py_tokens[3].string) \in DOMAIN pe.objs[pe.py_tokens[1].string]
\* the text of the head, and the token of the type-qualified reference
HeadText == pe.py_tokens[1].string \o "." \o pe.py_tokens[3].string
HeadToken ==
    ObjTablesToken("obj_id", HeadText, pe.py_tokens[1].string, Folded(pe.py_tokens[3].string),
                   pe.objs[pe.py_tokens[1].string][Folded(pe.py_tokens[3].string)])
\* the bare reference matches the type's name alone, one source token
BareMatchesTheTypeName ==
    \E T \in pe.term_models :
        /\ expression_term_token_pattern(T) = <<"NAME">>
        /\ Folded(pe.py_tokens[1].string) \in DOMAIN pe.objs[T]
\* the bare reference matches the three source tokens of the head
BareMatchesTheHead ==
    \E T \in pe.term_models :
        /\ expression_term_token_pattern(T) = <<"NAME", "DOT", "NAME">>
        /\ Folded(HeadText) \in DOMAIN pe.objs[T]

\* C20: where the text starts with a type-qualified reference Type.id,
\* tokenize takes the three source tokens as the one reference to the
\* instance of Type, also if Type is the id of an instance (the bare
\* reference matches one token), goes on with the fourth source token, and
\* reports no error of another strategy; if the bare reference matches the
\* three tokens as well, tokenize raises 'Multiple longest matches'.
C20_TheLongestMatchIsTaken ==
    (call.op = "tokenize" /\ QualifiedHead) =>
        IF BareMatchesTheHead
        THEN ret.raised = "Multiple longest matches"
        ELSE /\ Len(pe.obj_tables_tokens) >= 1
             /\ pe.obj_tables_tokens[1] = HeadToken
             /\ TokenizeReturned =>
                   /\ TokenizeSucceeded
                   /\ ret.errors.none /\ pe.errors = <<>>
                   /\ ret.tokens.v[1] = HeadToken
                   /\ TokensText(Tail(ret.tokens.v))
                        = SourceText(SubSeq(pe.py_tokens, 4, Len(pe.py_tokens)))

\* tokenize took Type.id where Type is the id of an instance as well, and
\* went on with the rest of the text
C20_Witness ==
    /\ call.op = "tokenize" /\ QualifiedHead
    /\ BareMatchesTheTypeName /\ ~BareMatchesTheHead
    /\ TokenizeSucceeded
    /\ Len(ret.tokens.v) > 1
    /\ ret.tokens.v[1] = HeadToken

\* ------------------------------------------ the errors of a position
\* the positions of the identifiers of the source
NamePositions == {p \in DOMAIN pe.py_tokens : pe.py_tokens[p].type = "NAME"}
\* the identifier at p as the source has it
NameAt(p) == strip_digit_prefix(pe.py_tokens[p].string)
\* at p the source has 'name.name', and 'name(', without white space
QualifiedAt(p) ==
    /\ p + 2 <= Len(pe.py_tokens)
    /\ pe.py_tokens[p + 1] = OpTok(".", TRUE)
    /\ pe.py_tokens[p + 2].type = "NAME" /\ pe.py_tokens[p + 2].adj
CallAt(p) ==
    /\ p + 1 <= Len(pe.py_tokens)
    /\ pe.py_tokens[p + 1] = OpTok("(", TRUE)
\* the term types that have the identifier at p for an id
OwnersAt(p) == {T \in pe.term_models : Folded(NameAt(p)) \in DOMAIN pe.objs[T]}

\* what the three strategies have to say against the identifier at p, by
\* the rules of the registry and of the allow-list: the bare reference ...
RelatedErrors(p) ==
    IF OwnersAt(p) = {}
    THEN <<[e |-> "aren't the id(s) of an object", ids |-> {NameAt(p)}]>>
    ELSE IF Cardinality(OwnersAt(p)) > 1
    THEN <<[e |-> "multiple model object id matches",
            matches |-> {<<NameAt(p), T>> : T \in OwnersAt(p)}]>>
    ELSE <<>>
\* ... the type-qualified reference ...
QualifiedErrors(p) ==
    IF ~QualifiedAt(p) THEN <<>>
    ELSE IF pe.py_tokens[p].string \notin pe.term_models
    THEN <<[e |-> "type cannot be referenced",
            text |-> NameAt(p) \o "." \o NameAt(p + 2),
            type |-> pe.py_tokens[p].string]>>
    ELSE IF Folded(pe.py_tokens[p + 2].string) \notin DOMAIN pe.objs[pe.py_tokens[p].string]
    THEN <<[e |-> "is not the id of a",
            text |-> NameAt(p) \o "." \o NameAt(p + 2),
            id |-> Folded(pe.py_tokens[p + 2].string),
            type |-> pe.py_tokens[p].string]>>
    ELSE <<>>
\* ... and the function call
CallErrors(p) ==
    IF CallAt(p) /\ pe.py_tokens[p].string \notin expression_valid_functions
    THEN <<[e |-> "func name isn't in expression_valid_functions",
            name |-> pe.py_tokens[p].string, allowed |-> expression_valid_functions]>>
    ELSE <<>>
StrategyErrors(p) == RelatedErrors(p) \o QualifiedErrors(p) \o CallErrors(p)
\* none of the three readings of the identifier at p is a good one
NoStrategyMatches(p) ==
    /\ RelatedErrors(p) # <<>>
    /\ QualifiedAt(p) => QualifiedErrors(p) # <<>>
    /\ CallAt(p) => CallErrors(p) # <<>>
\* the tokens on the instance account for the source before p, and for no
\* more
StoppedAt(p) ==
    TokensText(pe.obj_tables_tokens) = SourceText(SubSeq(pe.py_tokens, 1, p - 1))
\* the loop of tokenize comes to p: no identifier is before p, or the call
\* returned with the tokens of the source before p
ArrivedAt(p) ==
    \/ \A q \in NamePositions : p <= q
    \/ TokenizeReturned /\ StoppedAt(p)

\* C21: when, at the position of an identifier that tokenize comes to, no
\* strategy has a match and at least one has an error, the call returns
\* failure, its errors begin with the errors of all the strategies at that
\* position, in the order of the strategies, and the tokens on the instance
\* end before that position.
C21_AllErrorsOfThePosition ==
    (call.op = "tokenize" /\ Offending = {}) =>
        \A p \in NamePositions :
            (ArrivedAt(p) /\ NoStrategyMatches(p)) =>
                /\ TokenizeReturned
                /\ ret.tokens.none /\ ret.related_objects.none
                /\ ~ret.errors.none
                /\ Len(ret.errors.v) >= Len(StrategyErrors(p))
                /\ SubSeq(ret.errors.v, 1, Len(StrategyErrors(p))) = StrategyErrors(p)
                /\ pe.errors = ret.errors.v
                /\ StoppedAt(p)

\* tokenize failed at an identifier against which two strategies had an
\* error, with source tokens after it
C21_Witness ==
    /\ call.op = "tokenize" /\ Offending = {}
    /\ \E p \in NamePositions :
           /\ ArrivedAt(p) /\ NoStrategyMatches(p)
           /\ Len(StrategyErrors(p)) = 2
           /\ p < Len(pe.py_tokens)
           /\ ret.errors.v = StrategyErrors(p)

\* ------------------------------------------------ ambiguous tokens
\* the program on the short expressions, with a registry in which the name
\* of the allow-listed function is an id of both term types
SpecAmbiguous ==
    /\ InitFrom({Input(e, r) : e \in ShortExprs,
                               r \in Registries \cup {Registry([A |-> {"f"}, B |-> {"f", "x"}])}})
    /\ [][Next]_vars

\* the positions of the Identifier and FunctionName tokens on the instance
ResolvedNames ==
    {j \in DOMAIN pe.obj_tables_tokens :
        pe.obj_tables_tokens[j].code \in {"obj_id", "math_func_id"}}
\* what a text may mean: an instance of a term type, by its id, or an
\* allow-listed function
Meanings(text) ==
    {T \in pe.term_models : text \in DOMAIN pe.objs[T]}
    \cup (IF text \in expression_valid_functions THEN {"function"} ELSE {})
\* the resolved tokens whose text has more than one meaning
AmbiguousNames ==
    {j \in ResolvedNames : Cardinality(Meanings(pe.obj_tables_tokens[j].token_string)) > 1}
\* the 'is ambiguous' errors that the call returned
AmbiguityErrors ==
    {k \in DOMAIN ret.errors.v : ret.errors.v[k].e = "is ambiguous"}

\* C22: a call of tokenize that gets through the resolution pass without an
\* exception fails if a resolved identifier or function name has a text with
\* more than one meaning (an id of more than one term type, or an id and an
\* allow-listed function): it returns one 'is ambiguous' error for each such
\* token, naming the text and its meanings, and none for any other token.
C22_AmbiguousTextsAreErrors ==
    (TokenizeReturned /\ pe.py_tokens # <<>> /\ Offending = {}) =>
        /\ AmbiguousNames # {} =>
              /\ ret.tokens.none
              /\ ~ret.errors.none
              /\ \A j \in AmbiguousNames : \E k \in AmbiguityErrors :
                     /\ ret.errors.v[k].token = pe.obj_tables_tokens[j].token_string
                     /\ ret.errors.v[k].matches = Meanings(pe.obj_tables_tokens[j].token_string)
        /\ ~ret.errors.none =>
              /\ Cardinality(AmbiguityErrors) = Cardinality(AmbiguousNames)
              /\ \A k \in AmbiguityErrors : \E j \in AmbiguousNames :
                     ret.errors.v[k].token = pe.obj_tables_tokens[j].token_string

\* tokenize took f( for a call of the function f, f being an id of both
\* term types as well, and returned the ambiguity of f as its only error
C22_Witness ==
    /\ TokenizeReturned /\ Offending = {}
    /\ \E j \in AmbiguousNames :
           /\ pe.obj_tables_tokens[j].code = "math_func_id"
           /\ Meanings(pe.obj_tables_tokens[j].token_string) = {"A", "B", "function"}
    /\ Len(ret.errors.v) = 1
    /\ AmbiguityErrors = {1}

\* ------------------------------------------ the normalized tree
\* the nodes of the tree that the linearity check leaves
NormalNodes == Subtrees(validator.tree)

\* C23: when the normalization passes of the linearity check have run, the
\* tree has no unary operator, no subtraction, no product of two numbers and
\* no multiplication with an addition or subtraction as an operand, and each
\* of the passes maps it to itself.
C23_NormalizedTreeIsAFixpoint ==
    Normalized =>
        /\ \A n \in NormalNodes : n.k # "UnaryOp"
        /\ \A n \in NormalNodes : ~(n.k = "BinOp" /\ n.op = "Sub")
        /\ \A n \in Multiplications : ~(n.left.k = "Num" /\ n.right.k = "Num")
        /\ \A n \in Multiplications :
               /\ ~(n.left.k = "BinOp" /\ n.left.op \in {"Add", "Sub"})
               /\ ~(n.right.k = "BinOp" /\ n.right.op \in {"Add", "Sub"})
        /\ RemoveUnaryOps(validator.tree) = validator.tree
        /\ MultiplyNums(validator.tree) = validator.tree
        /\ dist_mult(validator.tree) = validator.tree
        /\ DistributeSub(validator.tree) = validator.tree

\* ------------------------------------- the variables of the references
\* the positions of the ObjectReference tokens on the instance
ReferencePositions ==
    {j \in DOMAIN pe.obj_tables_tokens : pe.obj_tables_tokens[j].code = "obj_id"}
\* the name that the linearity check wrote for the token at j
VariableOf(j) == validator.expression[j].s
\* the sign of the term of the token at j in a sum or difference of references
SignOf(j) ==
    IF \E i \in 1..(j - 1) : pe.obj_tables_tokens[i].token_string = "-" THEN -1 ELSE 1
\* the sum of the signs of the references to the instance m of T
SignedOccurrences(T, m) ==
    LET at == {j \in ReferencePositions :
                  /\ pe.obj_tables_tokens[j].model_type = T
                  /\ pe.obj_tables_tokens[j].model = m}
    IN  Cardinality({j \in at : SignOf(j) = 1}) - Cardinality({j \in at : SignOf(j) = -1})

\* C24: in a call of validate on a tokenized expression, two ObjectReference
\* tokens that refer to different (type, instance) pairs never get the same
\* variable name, and if the call sets the coefficients of a linear
\* expression, the coefficient of every related instance is the signed
\* number of the tokens that refer to that instance of that type.
C24_VariablesAreOneToOne ==
    (call.op = "validate" /\ Tokenized) =>
        /\ \A i, j \in ReferencePositions :
               (\/ pe.obj_tables_tokens[i].model_type # pe.obj_tables_tokens[j].model_type
                \/ pe.obj_tables_tokens[i].model # pe.obj_tables_tokens[j].model) =>
                   VariableOf(i) # VariableOf(j)
        /\ (CoefficientsSet /\ rv.valid) =>
               \A T \in DOMAIN pe.lin_coeffs : \A m \in DOMAIN pe.lin_coeffs[T] :
                   pe.lin_coeffs[T][m] = Float(SignedOccurrences(T, m))

\* ------------------------------------------ the allowed term types
\* The program on the short expressions for owning types that allow no term
\* type, only the type C, whose token pattern has three tokens, the type A,
\* or both; the registry holds an instance for each allowed type.
SpecTermTypes ==
    /\ \E e \in ShortExprs, term_order \in {<<>>, <<"C">>, <<"A">>, <<"A", "C">>} :
           pe = ParsedExpression("Expr", term_order, e,
                    Registry([T \in {term_order[j] : j \in DOMAIN term_order} |->
                                 IF T = "C" THEN {"A.x"} ELSE {"x"}]))
    /\ validator = NewValidator
    /\ call = NoCall
    /\ ret = NotCalled
    /\ rv = NotCalled
    /\ prev = NoCall
    /\ ev = NotEvaluated
    /\ exprs = EmptyDict
    /\ threads = <<>>
    /\ [][\E case_fold_match \in BOOLEAN : Tokenize(case_fold_match)]_vars

\* C25: whatever the allowed term types and the registry, tokenize never
\* raises 'No matches or errors found': at every identifier one of the three
\* strategies has a match or an error, and an identifier that cannot be
\* resolved makes the call return its errors.
C25_SomeStrategyAnswers ==
    call.op = "tokenize" =>
        /\ ret.raised # "No matches or errors found"
        /\ (NamePositions # {} /\ Offending = {} /\ ret.raised = None /\ ret.tokens.none) =>
               (~ret.errors.none /\ ret.errors.v # <<>>)



\* ------------------------------------------- the keys of the registry
\* the program on the expressions of one or two instances of a registry
\* with case-folded keys, named as the registry or as the instance has them
SpecKeys ==
    /\ \E l \in {"x", "y", "Y", "p", "q", "Q"}, r \in {"", "x", "Y", "p", "Q"},
          order \in {<<"A", "Parameter">>, <<"Parameter", "A">>} :
           pe = ParsedExpression("Expr", order,
                    Lex(<<NameTok(l, TRUE)>>
                        \o (IF r = "" THEN <<>> ELSE <<OpTok("/", FALSE), NameTok(r, TRUE)>>)),
                    \* the registry: its keys are case-folded, as
                    \* tokenize(case_fold_match=True) needs them; the dynamic
                    \* instance Y of A is kept under y and the static instance
                    \* Q of Parameter under q
                    [A |-> [key \in {"x", "y"} |->
                              [cls |-> "A", id |-> IF key = "y" THEN "Y" ELSE key,
                               units |-> "dimensionless"]],
                     Parameter |-> [key \in {"p", "q"} |->
                              [cls |-> "Parameter", id |-> IF key = "q" THEN "Q" ELSE key,
                               value |-> IF key = "p" THEN Scalar(2) ELSE Scalar(3),
                               units |-> "dimensionless"]]])
    /\ validator = NewValidator
    /\ call = NoCall
    /\ ret = NotCalled
    /\ rv = NotCalled
    /\ prev = NoCall
    /\ ev = NotEvaluated
    /\ exprs = EmptyDict
    /\ threads = <<>>
    /\ [][\/ \E case_fold_match \in BOOLEAN : Tokenize(case_fold_match)
          \* the values of the dynamic instances, by their key in the registry
          \/ \E with_units \in BOOLEAN :
                 Eval([A |-> Dict([key \in {"x", "y"} |->
                                     IF key = "x" THEN Scalar(2) ELSE Scalar(4)])],
                      with_units)
          \/ TestEval(Scalar(1), FALSE)]_vars

\* C26: an ObjectReference is compiled to the key under which eval stores
\* the value of its instance, the id of the registry that related_objects
\* records: once tokenize has succeeded, an evaluation with a value for
\* every dynamic instance, by its key in the registry, finds the value of
\* every reference and returns.
C26_ReferencesFindTheirValues ==
    (Evaluated /\ Tokenized) =>
        /\ \A tk \in ObjectReferences(pe.obj_tables_tokens) :
               \E node \in {n \in UNION {{pe.compiled_expression.v}} \cup
                                  (IF pe.compiled_expression.v.k = "BinOp"
                                   THEN {pe.compiled_expression.v.left,
                                         pe.compiled_expression.v.right}
                                   ELSE {}) : n.k = "Subscript"} :
                   /\ node.value = Name(tk.model_type)
                   /\ node.slice = tk.model_id
        /\ ev.raised.type = None

\* ------------------------------------------- the attribute is_linear
\* parsed_expression.is_linear, _ =
\*     LinearParsedExpressionValidator().validate(parsed_expression),
\* the statement of Expression.deserialize and Expression.validate that
\* checks the linearity: the validator is a new one, and nothing is assigned
\* if validate raises
CheckLinearity ==
    LET done == validate(NewValidator, pe, TRUE)
    IN  /\ pe' = IF done.raised = None
                 THEN [done.parsed_expression EXCEPT !.is_linear = Some(done.rv.valid)]
                 ELSE done.parsed_expression
        /\ rv' = [raised |-> done.raised, valid |-> done.rv.valid, error |-> done.rv.error]
        /\ call' = [op |-> "check_linearity"]
        /\ prev' = NoCall
        /\ UNCHANGED <<validator, ret, ev, exprs, threads>>

\* the calls of tokenize and the checks of linearity, in any order
SpecLinearity ==
    Init /\ [][\/ \E case_fold_match \in BOOLEAN : Tokenize(case_fold_match)
               \/ CheckLinearity]_vars

\* C27: whatever calls of tokenize and checks of linearity were made on a
\* ParsedExpression, an is_linear that is true stands next to lin_coeffs
\* with a coefficient for every related instance: tokenize leaves no
\* is_linear of an earlier check next to the coefficients it has emptied.
C27_IsLinearHasItsCoefficients ==
    (~pe.is_linear.none /\ pe.is_linear.v) =>
        \A T \in pe.term_models : RelatedInstances(T) \subseteq DOMAIN pe.lin_coeffs[T]

\* ------------------------------------------- the values of earlier calls
\* the instance as the last tokenize left it, if that succeeded: the name
\* spaces are those of _compile
AsTokenized ==
    [pe EXCEPT !.compiled_namespace = compiled_namespace(FALSE),
               !.compiled_namespace_with_units = compiled_namespace(TRUE)]

\* C28: what eval returns or raises depends on the arguments of the call and
\* on what the last tokenize derived, and on nothing that an earlier eval
\* was given: it is what the same call gives directly after tokenize. So an
\* eval of values without the type of a dynamic term of the expression does
\* not return, whatever was evaluated before.
C28_EvalDependsOnItsArguments ==
    (call.op = "eval" /\ Tokenized) =>
        /\ ev = eval(AsTokenized, SubFunctionExpressions, call.values, call.with_units).ret
        /\ ("A" \notin DOMAIN call.values /\ RelatedInstances("A") # {}) =>
               ev.raised.type # None


\* ------------------------------------------- the mapping of the caller
\* the mappings that a caller makes for eval and for test_eval: each has
\* the values of the dynamic type
MappingValues ==
    { [A |-> Dict([id \in {"x", "y"} |-> IF id = "x" THEN Scalar(2) ELSE Scalar(3)])],
      [A |-> Dict([id \in {"x", "y"} |-> Scalar(6)]),
       Parameter |-> Dict([id \in {"p"} |-> Scalar(5)])] }

\* parsed_expression.eval(values, with_units) with the mapping of the last
\* evaluation, which the caller has kept, as that evaluation left it; the
\* caller stops before a value has more than MaxPower factors of a unit
EvalSame(with_units) ==
    /\ call.op \in {"eval", "test_eval"}
    /\ "n" \notin DOMAIN call.left
    /\ \A T \in DOMAIN call.left :
           /\ "n" \notin DOMAIN call.left[T]
           /\ \A id \in DOMAIN call.left[T].items :
                  with_units => UnitPower(call.left[T].items[id].units) < MaxPower
    /\ Eval(call.left, with_units)

\* the evaluations of an expression of x, y and p, with a new mapping or with
\* the one of the last evaluation
SpecMapping ==
    /\ \E l \in {"x", "y", "p"}, r \in {"", "p"},
          order \in {<<"A", "Parameter">>, <<"Parameter", "A">>} :
           pe = ParsedExpression("Expr", order,
                    Lex(<<NameTok(l, TRUE)>>
                        \o (IF r = "" THEN <<>> ELSE <<OpTok("/", FALSE), NameTok(r, TRUE)>>)),
                    \* the registry: the dynamic x is dimensionless and y is
                    \* in g, the static p is 2 and dimensionless
                    [A |-> [id \in {"x", "y"} |->
                              [cls |-> "A", id |-> id,
                               units |-> IF id = "x" THEN "dimensionless" ELSE "g"]],
                     Parameter |-> [id \in {"p"} |->
                              [cls |-> "Parameter", id |-> id, value |-> Scalar(2),
                               units |-> "dimensionless"]]])
    /\ validator = NewValidator
    /\ call = NoCall
    /\ ret = NotCalled
    /\ rv = NotCalled
    /\ prev = NoCall
    /\ ev = NotEvaluated
    /\ exprs = EmptyDict
    /\ threads = <<>>
    /\ [][\/ Tokenize(FALSE)
          \/ \E values \in MappingValues, with_units \in BOOLEAN : Eval(values, with_units)
          \/ \E with_units \in BOOLEAN : EvalSame(with_units)
          \/ \E values \in MappingValues \cup {Scalar(1), [A |-> Scalar(3)]},
                with_units \in BOOLEAN : TestEval(values, with_units)]_vars

\* C29: eval and test_eval leave the mapping of the caller as it was given,
\* also with with_units=True; so an evaluation with units that returned
\* returns the same again for the same mapping: the units of a dynamic term
\* are applied once in each evaluation.
C29_TheMappingIsLeftAsGiven ==
    call.op \in {"eval", "test_eval"} =>
        /\ call.left = call.values
        /\ (call.op = "eval" /\ call.with_units /\ ev.raised.type = None) =>
               eval(pe, exprs, call.left, TRUE).ret = ev

\* ------------------------- obj_model: the validator with the DFSM acceptor
\* the transitions of a linear expression with a sign in front of a term
TRANSITIONS_with_signs ==
    { <<"need number or id", <<"number", None>>, "need * id">>,
      <<"need * id", <<"op", "*">>, "need id">>,
      <<"need id", <<"obj_id", None>>, "need + | - | end">>,
      <<"need number or id", <<"obj_id", None>>, "need + | - | end">>,
      <<"need number or id", <<"op", "-">>, "need number or id">>,
      <<"need + | - | end", <<"op", "+">>, "need number or id">>,
      <<"need + | - | end", <<"op", "-">>, "need number or id">>,
      <<"need + | - | end", <<None, None>>, "end">> }

\* LinearParsedExpressionValidator.TRANSITIONS: (current state, message,
\* next state)
TRANSITIONS ==
    { <<"need number or id", <<"number", None>>, "need * id">>,
      <<"need * id", <<"op", "*">>, "need id">>,
      <<"need id", <<"obj_id", None>>, "need + | - | end">>,
      <<"need number or id", <<"obj_id", None>>, "need + | - | end">>,
      <<"need + | - | end", <<"op", "+">>, "need number or id">>,
      <<"need + | - | end", <<"op", "-">>, "need number or id">>,
      <<"need + | - | end", <<None, None>>, "end">> }

\* LinearParsedExpressionValidator().validate(expression) for the tokens of
\* the expression: the acceptor starts in 'need number or id' and accepts in
\* 'end', and an empty sequence of tokens is valid
LinearParsedExpressionValidator_validate(tokens) ==
    LET RECURSIVE run(_, _)

        Valid == [valid |-> TRUE, error |-> None]
        Invalid(error) == [valid |-> FALSE, error |-> error]

        \* float(token_string) raises no ValueError
        IsFloat(token_string) == token_string \in {"3"}

        \* _validate_tokens: the tokens that it does not let pass
        refused ==
            {j \in DOMAIN tokens :
                \/ tokens[j].code \in {"math_func_id", "other"}
                \/ tokens[j].code = "number" /\ ~IsFloat(tokens[j].token_string)}
        first == CHOOSE j \in refused : \A k \in refused : j <= k

        \* _make_dfsa_messages
        messages ==
            [j \in DOMAIN tokens |->
                <<tokens[j].code,
                  IF tokens[j].code = "op" THEN tokens[j].token_string ELSE None>>]
            \o <<<<None, None>>>>

        \* DFSMAcceptor.run from the state on
        run(state, todo) ==
            IF todo = <<>>
            THEN IF state = "end" THEN "accept" ELSE "fail"
            ELSE IF \E t \in TRANSITIONS : t[1] = state /\ t[2] = Head(todo)
            THEN run((CHOOSE t \in TRANSITIONS : t[1] = state /\ t[2] = Head(todo))[3],
                     Tail(todo))
            ELSE "fail"
    IN  IF tokens = <<>> THEN Valid
        ELSE IF refused # {}
        THEN Invalid(IF tokens[first].code = "number" THEN "ValueError"
                     ELSE "messages do not use token codes math_func_id or other")
        ELSE IF run("need number or id", messages) = "accept" THEN Valid
        ELSE Invalid("Not a linear expression")

\* linear_expression_verifier.validate(mock.Mock(_obj_model_tokens=tokens))
ValidateTokens ==
    /\ rv' = [raised |-> None] @@ LinearParsedExpressionValidator_validate(pe.obj_model_tokens)
    /\ call' = [op |-> "validate"]
    /\ UNCHANGED <<pe, validator, ret, prev, ev, exprs, threads>>

\* the tokens without the i-th, obj_model_tokens[:i] + obj_model_tokens[i+1:],
\* of tokens that were validated
DropToken(i) ==
    /\ call.op = "validate"
    /\ i \in DOMAIN pe.obj_model_tokens
    /\ pe' = [obj_model_tokens |->
                 SubSeq(pe.obj_model_tokens, 1, i - 1)
                 \o SubSeq(pe.obj_model_tokens, i + 1, Len(pe.obj_model_tokens))]
    /\ prev' = [op |-> "drop", valid |-> rv.valid]
    /\ call' = [op |-> "drop"]
    /\ rv' = NotCalled
    /\ UNCHANGED <<validator, ret, ev, exprs, threads>>

\* the validations of the sequences of at most MaxTokens tokens, and of
\* what is left of them when tokens are dropped
SpecTokens ==
    /\ \E n \in 0..MaxTokens :
          \E tokens \in [1..n -> {[code |-> "obj_id", token_string |-> "id0"],
                                  [code |-> "number", token_string |-> "3"],
                                  [code |-> "op", token_string |-> "*"],
                                  [code |-> "op", token_string |-> "+"],
                                  [code |-> "op", token_string |-> "-"],
                                  [code |-> "math_func_id", token_string |-> "log"]}] :
              pe = [obj_model_tokens |-> tokens]
    /\ validator = NewValidator
    /\ call = NoCall
    /\ ret = NotCalled
    /\ rv = NotCalled
    /\ prev = NoCall
    /\ ev = NotEvaluated
    /\ exprs = EmptyDict
    /\ threads = <<>>
    /\ [][ValidateTokens \/ \E i \in 1..MaxTokens : DropToken(i)]_vars

\* a sequence that the validator accepted has lost a token, and what is left
\* was validated
DroppedFromValid == call.op = "validate" /\ prev.op = "drop" /\ prev.valid

\* C30, as claimed: whatever the length of a sequence of tokens that the
\* validator accepts as linear, the sequence without any one of its tokens
\* is rejected.
C30_WithoutATokenIsRejected ==
    DroppedFromValid => ~rv.valid

\* C30: the sequence without one of the tokens of an accepted sequence is
\* rejected if a token is left; the accepted sequence of one identifier
\* leaves the empty sequence, which is accepted.
C30_WithoutATokenIsRejectedUnlessEmpty ==
    DroppedFromValid => (rv.valid <=> pe.obj_model_tokens = <<>>)

\* a token was dropped from an accepted sequence of five tokens, and what is
\* left was rejected
C30_Witness ==
    /\ DroppedFromValid
    /\ Len(pe.obj_model_tokens) = 4
    /\ ~rv.valid /\ rv.error = "Not a linear expression"

====
